---- MODULE Spec2Model ----
(***************************************************************************)
(* Phoenix incident orchestration: the orchestrator's incident state       *)
(* machine (src/agents/orchestrator/agent.py), its per-incident watchdog   *)
(* and its agent-response handlers, as asyncio tasks that interleave at    *)
(* their suspension points (event dispatch, sleep).                        *)
(*                                                                         *)
(* Incident objects live in a small heap per incident id, because the      *)
(* watchdog REPLACES the object held in active_incidents by a fresh copy   *)
(* of the persisted record while a suspended handler may still hold the    *)
(* old object.                                                             *)
(***************************************************************************)
EXTENDS Integers, Sequences, FiniteSets, TLC

\* ---------------------------------------------------------------- bounds
NumIncidents == 1
NumHandlers == 1
MaxActions == 1
MaxTime == 2
ResponseTimeout == 1

Incidents == 1..NumIncidents
HandlerIds == 1..NumHandlers
Slots == 1..(NumHandlers + 1)

\* ------------------------------------------------------------ data model
Severities == {"LOW", "MEDIUM", "HIGH", "CRITICAL"}
Statuses == {"DETECTED", "ANALYZING", "RESOLVING", "RESOLVED", "ESCALATED"}
Terminal == {"RESOLVED", "ESCALATED"}

\* Enum.value : the lowercase string stored in the persisted record
EnumValue(e) ==
    CASE e = "LOW" -> "low" [] e = "MEDIUM" -> "medium" [] e = "HIGH" -> "high"
      [] e = "CRITICAL" -> "critical"
      [] e = "DETECTED" -> "detected" [] e = "ANALYZING" -> "analyzing"
      [] e = "RESOLVING" -> "resolving" [] e = "RESOLVED" -> "resolved"
      [] e = "ESCALATED" -> "escalated"

\* IncidentSeverity(value) / IncidentStatus(value) : enum lookup by value
EnumOfValue(v) ==
    CHOOSE e \in Severities \cup Statuses : EnumValue(e) = v

None == -1
Absent == -1

NoObj == [status |-> "free"]
NoItem == [id |-> 0]

\* alert_data.get("metrics", {}) of an alert without metrics
NoMetrics == [cpu_percentage |-> Absent]

\* an incident that is created in ANALYZING
NewIncidentAnalyzing(i, sev, t) ==
    [id |-> i, title |-> "Unknown Incident", description |-> "",
     severity |-> sev, status |-> "ANALYZING", source |-> "monitoring",
     metrics |-> NoMetrics, created_at |-> t, updated_at |-> t,
     assigned_agents |-> << >>, resolution_actions |-> << >>,
     estimated_resolution_time |-> None, actual_resolution_time |-> None]

\* Incident(...) as built by _create_incident_from_alert
NewIncident(i, sev, t) ==
    [id |-> i, title |-> "Unknown Incident", description |-> "",
     severity |-> sev, status |-> "DETECTED", source |-> "monitoring",
     metrics |-> NoMetrics, created_at |-> t, updated_at |-> t,
     assigned_agents |-> << >>, resolution_actions |-> << >>,
     estimated_resolution_time |-> None, actual_resolution_time |-> None]

\* the dict _persist_incident upserts: enums by value, datetimes as ISO text
ToItem(o) ==
    [id |-> o.id, incidentId |-> o.id,
     title |-> o.title, description |-> o.description,
     severity |-> EnumValue(o.severity), status |-> EnumValue(o.status),
     source |-> o.source, metrics |-> o.metrics,
     created_at |-> <<"iso", o.created_at>>,
     updated_at |-> <<"iso", o.updated_at>>,
     assigned_agents |-> o.assigned_agents,
     resolution_actions |-> o.resolution_actions,
     estimated_resolution_time |-> o.estimated_resolution_time,
     actual_resolution_time |-> o.actual_resolution_time]

\* a reload that leaves the lists of the incident empty
FromItemWithoutLists(item) ==
    [id |-> item.id,
     title |-> item.title, description |-> item.description,
     severity |-> EnumOfValue(item.severity),
     status |-> EnumOfValue(item.status),
     source |-> item.source, metrics |-> item.metrics,
     created_at |-> item.created_at[2],
     updated_at |-> item.updated_at[2],
     assigned_agents |-> << >>,
     resolution_actions |-> << >>,
     estimated_resolution_time |-> item.estimated_resolution_time,
     actual_resolution_time |-> item.actual_resolution_time]

\* the Incident _get_incident_from_db rebuilds from an item
FromItem(item) ==
    [id |-> item.id,
     title |-> item.title, description |-> item.description,
     severity |-> EnumOfValue(item.severity),
     status |-> EnumOfValue(item.status),
     source |-> item.source, metrics |-> item.metrics,
     created_at |-> item.created_at[2],
     updated_at |-> item.updated_at[2],
     assigned_agents |-> item.assigned_agents,
     resolution_actions |-> item.resolution_actions,
     estimated_resolution_time |-> item.estimated_resolution_time,
     actual_resolution_time |-> item.actual_resolution_time]

Contains(seq, x) == \E n \in 1..Len(seq) : seq[n] = x

\* an assignment that gives MEDIUM incidents the resolution agent too
DetermineRequiredAgentsFromMedium(sev) ==
    IF sev \in {"MEDIUM", "HIGH", "CRITICAL"}
    THEN <<"diagnostic", "resolution", "communication">>
    ELSE <<"diagnostic">>

\* _determine_required_agents
DetermineRequiredAgents(sev) ==
    IF sev \in {"HIGH", "CRITICAL"}
    THEN <<"diagnostic", "resolution", "communication">>
    ELSE IF sev = "MEDIUM"
    THEN <<"diagnostic", "communication">>
    ELSE <<"diagnostic">>

\* ----------------------------------------------------------------- state
VARIABLES
    now,               \* datetime.utcnow(), in abstract time units
    active_incidents,  \* incident id -> heap slot of its object, 0 = absent
    heap,              \* incident id -> slot -> Incident object
    cosmos,            \* incidents_container: incident id -> item
    pa,                \* process_alert task per incident id
    wd,                \* _monitor_incident_progress task per incident id
    hnd,               \* handle_agent_response tasks per incident id
    last,              \* the step just taken and what it did to the outside
    plan,              \* the ResolutionPlan of the execute_resolution call
    rtask,             \* the execute_resolution task of the resolution agent
    capability_calls,  \* the capability invocations of the call, in order
    approval_responses,\* the approval_response events the agent has handled
    outbox,            \* the events the resolution agent sent in the call
    rollback_enabled,  \* self.rollback_enabled of the resolution agent
    request,           \* the resolution_request of the execute_resolution call
    alert_data,        \* the alert _classify_severity was called with
    ctask              \* the _classify_severity call and how it ended

orchestrator_vars ==
    <<now, active_incidents, heap, cosmos, pa, wd, hnd, last>>
resolution_vars ==
    <<plan, rtask, capability_calls, approval_responses, outbox,
      rollback_enabled, request>>
classifier_vars == <<alert_data, ctask>>
vars == <<orchestrator_vars, resolution_vars, classifier_vars>>

NoResp == [agent_type |-> "none", confidence |-> Absent,
           diagnosis |-> [root_cause |-> "", confidence |-> Absent],
           success |-> FALSE, actions_taken |-> << >>]
NoReason == [text |-> "", confidence |-> Absent, error |-> ""]
NoEvent == [event_type |-> "none", incident_id |-> 0, reason |-> NoReason,
            diagnosis |-> NoResp.diagnosis,
            incident_data |-> [severity |-> <<"", "">>, status |-> <<"", "">>]]
IdleTask == [pc |-> "idle", ev |-> NoEvent, ret |-> None]
IdleHandler == [pc |-> "idle", ref |-> 0, resp |-> NoResp, ev |-> NoEvent]
NoWatchdog == [pc |-> "none", start_time |-> 0, ev |-> NoEvent]

\* a step: the operation, the incident id and handler it belongs to, the
\* response being handled and the status the incident had when its handling
\* began, the exception raised in the step, the event whose send_batch
\* completed in the step, the reason of the _escalate_incident call made in
\* the step, and whether an upsert_item succeeded in the step
NoStep ==
    [op |-> "init", i |-> 0, k |-> 0, resp |-> NoResp, before |-> "none",
     exc |-> "none", ev |-> NoEvent, esc |-> NoReason, wrote |-> FALSE]

\* no execute_resolution call has been made yet
\* config.get("rollback_enabled", True)
RollbackEnabled == TRUE

NoAlert == [metrics_type |-> "no alert"]
IdleClassifier == [pc |-> "idle", severity |-> "none", fallback |-> FALSE]
NoPlan == [incident_id |-> 0]
NoRequest == [event_type |-> "none"]

\* the execute_resolution task: where it is, the action it is at, the
\* execution_results so far and how the call ended
IdleResolution ==
    [pc |-> "idle", n |-> 0, results |-> << >>, outcome |-> "none"]

\* the object active_incidents holds for incident id i
Cur(i) == heap[i][active_incidents[i]]

\* the event dict built by the _dispatch_to_* / _notify_escalation methods;
\* json.dumps(..., default=str) writes the enums of asdict(incident) as
\* "IncidentSeverity.X" / "IncidentStatus.X"
Event(type, o, reason, diagnosis) ==
    [event_type |-> type, incident_id |-> o.id, reason |-> reason,
     diagnosis |-> diagnosis,
     incident_data |-> [severity |-> <<"IncidentSeverity", o.severity>>,
                        status |-> <<"IncidentStatus", o.status>>]]

\* the text of the exception a failed send_batch raises
SendError == "send_batch failed"

CoordinationFailed ==
    [text |-> "Coordination failed: ", confidence |-> Absent,
     error |-> SendError]
LowConfidence(c) ==
    [text |-> "Low diagnostic confidence: ", confidence |-> c, error |-> ""]
ResolutionFailed ==
    [text |-> "Automatic resolution failed", confidence |-> Absent,
     error |-> ""]
TimeoutExceeded ==
    [text |-> "Response timeout exceeded", confidence |-> Absent,
     error |-> ""]

\* the two assignments that open _escalate_incident
Escalated(o) == [o EXCEPT !.status = "ESCALATED", !.updated_at = now]

\* _persist_incident(o) with its outcome
Persisted(i, o, persistOK) ==
    IF persistOK THEN [cosmos EXCEPT ![i] = ToItem(o)] ELSE cosmos

\* objects no task and no map entry refers to any more are dropped
Live(hs, m) == {m} \cup {hs[k].ref : k \in {j \in HandlerIds : hs[j].pc # "idle"}}
Sweep(h, live) == [s \in Slots |-> IF s \in live THEN h[s] ELSE NoObj]
FreeSlot(h) == CHOOSE s \in Slots : h[s] = NoObj /\ \A t \in 1..(s - 1) : h[t] # NoObj

Init ==
    /\ now = 0
    /\ active_incidents = [i \in Incidents |-> 0]
    /\ heap = [i \in Incidents |-> [s \in Slots |-> NoObj]]
    /\ cosmos = [i \in Incidents |-> NoItem]
    /\ pa = [i \in Incidents |-> IdleTask]
    /\ wd = [i \in Incidents |-> NoWatchdog]
    /\ hnd = [i \in Incidents |-> [k \in HandlerIds |-> IdleHandler]]
    /\ last = NoStep
    /\ plan = NoPlan
    /\ rtask = IdleResolution
    /\ capability_calls = << >>
    /\ approval_responses = {}
    /\ outbox = << >>
    /\ rollback_enabled = RollbackEnabled
    /\ request = NoRequest
    /\ alert_data = NoAlert
    /\ ctask = IdleClassifier

\* time passes
Tick ==
    /\ now < MaxTime
    /\ now' = now + 1
    /\ last' = [NoStep EXCEPT !.op = "tick"]
    /\ UNCHANGED <<active_incidents, heap, cosmos, pa, wd, hnd>>
    /\ UNCHANGED <<resolution_vars, classifier_vars>>

\* process_alert up to the send_batch of _dispatch_to_diagnostic_agent:
\* create, register, persist, then _coordinate_response's assignments;
\* elapsed is the time that passes between the utcnow() of the creation and
\* the utcnow() of _coordinate_response, while upsert_item runs
ProcessAlertTimed(i, sev, persistOK, elapsed) ==
    /\ pa[i].pc = "idle"
    /\ \A j \in 1..(i - 1) : pa[j].pc # "idle"
    /\ now + ResponseTimeout + 1 <= MaxTime
    /\ now + elapsed <= MaxTime
    /\ now' = now + elapsed
    /\ LET o == NewIncident(i, sev, now)
           a == [o EXCEPT !.status = "ANALYZING", !.updated_at = now + elapsed,
                          !.assigned_agents = DetermineRequiredAgents(sev)]
       IN  /\ active_incidents' = [active_incidents EXCEPT ![i] = 1]
           /\ cosmos' = Persisted(i, o, persistOK)
           /\ IF persistOK
              THEN /\ heap' = [heap EXCEPT ![i][1] = a]
                   /\ pa' = [pa EXCEPT ![i] =
                        [pc |-> "dispatch_to_diagnostic_agent",
                         ev |-> Event("incident_analysis_request", a,
                                      NoReason, NoResp.diagnosis),
                         ret |-> None]]
                   /\ last' = [NoStep EXCEPT !.op = "process_alert", !.i = i,
                                             !.wrote = TRUE]
              ELSE /\ heap' = [heap EXCEPT ![i][1] = o]
                   /\ pa' = [pa EXCEPT ![i] = [pc |-> "raised", ev |-> NoEvent,
                                               ret |-> None]]
                   /\ last' = [NoStep EXCEPT !.op = "process_alert_raise",
                                             !.i = i, !.exc = "persist"]
    /\ UNCHANGED <<wd, hnd>>
    /\ UNCHANGED <<resolution_vars, classifier_vars>>

\* process_alert when upsert_item takes less than a unit of time
ProcessAlert(i, sev, persistOK) == ProcessAlertTimed(i, sev, persistOK, 0)

\* process_alert resumes after the send_batch of the analysis request: the
\* watchdog task is created, or the except branch of _coordinate_response
\* calls _escalate_incident (up to its send_batch when communication is
\* assigned, else through its persist)
ProcessAlertResume(i, sendOK, persistOK) ==
    /\ pa[i].pc = "dispatch_to_diagnostic_agent"
    /\ LET r == active_incidents[i]
           o == heap[i][r]
       IN
       IF sendOK
       THEN /\ wd' = [wd EXCEPT ![i] =
                 [pc |-> "running", start_time |-> now, ev |-> NoEvent]]
            /\ pa' = [pa EXCEPT ![i] = [pc |-> "done", ev |-> NoEvent,
                                         ret |-> o.id]]
            /\ last' = [NoStep EXCEPT !.op = "process_alert_return", !.i = i,
                                      !.ev = pa[i].ev]
            /\ UNCHANGED <<heap, cosmos>>
       ELSE /\ heap' = [heap EXCEPT ![i][r] = Escalated(o)]
            /\ wd' = wd
            /\ IF Contains(o.assigned_agents, "communication")
               THEN /\ pa' = [pa EXCEPT ![i] =
                         [pc |-> "notify_escalation",
                          ev |-> Event("incident_escalation", Escalated(o),
                                       CoordinationFailed, NoResp.diagnosis),
                          ret |-> None]]
                    /\ last' = [NoStep EXCEPT !.op = "process_alert_escalate",
                                   !.i = i, !.exc = "dispatch",
                                   !.esc = CoordinationFailed]
                    /\ cosmos' = cosmos
               ELSE /\ cosmos' = Persisted(i, Escalated(o), persistOK)
                    /\ pa' = [pa EXCEPT ![i] =
                         [pc |-> IF persistOK THEN "done" ELSE "raised",
                          ev |-> NoEvent,
                          ret |-> IF persistOK THEN o.id ELSE None]]
                    /\ last' = [NoStep EXCEPT
                         !.op = IF persistOK THEN "process_alert_return"
                                             ELSE "process_alert_raise",
                         !.i = i,
                         !.exc = IF persistOK THEN "dispatch" ELSE "persist",
                         !.esc = CoordinationFailed, !.wrote = persistOK]
    /\ UNCHANGED <<now, active_incidents, hnd>>
    /\ UNCHANGED <<resolution_vars, classifier_vars>>

\* process_alert resumes after the send_batch of _notify_escalation: persist
\* and return, or the exception of the send leaves process_alert
ProcessAlertNotified(i, sendOK, persistOK) ==
    /\ pa[i].pc = "notify_escalation"
    /\ cosmos' = Persisted(i, Cur(i), sendOK /\ persistOK)
    /\ pa' = [pa EXCEPT ![i] =
         [pc |-> IF sendOK /\ persistOK THEN "done" ELSE "raised",
          ev |-> NoEvent,
          ret |-> IF sendOK /\ persistOK THEN Cur(i).id ELSE None]]
    /\ last' = [NoStep EXCEPT
         !.op = IF sendOK /\ persistOK THEN "process_alert_return"
                                       ELSE "process_alert_raise",
         !.i = i,
         !.exc = IF ~sendOK THEN "notify"
                 ELSE IF ~persistOK THEN "persist" ELSE "none",
         !.ev = IF sendOK THEN pa[i].ev ELSE NoEvent,
         !.wrote = sendOK /\ persistOK]
    /\ UNCHANGED <<now, active_incidents, heap, wd, hnd>>
    /\ UNCHANGED <<resolution_vars, classifier_vars>>

\* a watchdog whose loop ends on RESOLVED only
WatchdogGoesOnButEscalated(o) == o.status # "RESOLVED"

\* the condition of the while loop of _monitor_incident_progress
WatchdogGoesOn(o) == o.status \notin {"RESOLVED", "ESCALATED"}

\* _monitor_incident_progress, one pass of the while loop whose condition
\* fails: the incident the watchdog holds is RESOLVED or ESCALATED
WatchdogExit(i) ==
    /\ wd[i].pc = "running"
    /\ ~WatchdogGoesOn(Cur(i))
    /\ wd' = [wd EXCEPT ![i].pc = "done"]
    /\ last' = [NoStep EXCEPT !.op = "watchdog_exit", !.i = i]
    /\ UNCHANGED <<now, active_incidents, heap, cosmos, pa, hnd>>
    /\ UNCHANGED <<resolution_vars, classifier_vars>>

\* the comparison with its operands exchanged
TimedOutReversed(start_time) == start_time - now > ResponseTimeout

\* the comparison of the watchdog: utcnow() - start_time > timeout
TimedOut(start_time) == now - start_time > ResponseTimeout

\* one pass that finds the timeout exceeded: _escalate_incident, up to its
\* send_batch when communication is assigned, else through its persist
WatchdogTimeout(i, persistOK) ==
    /\ wd[i].pc = "running"
    /\ WatchdogGoesOn(Cur(i))
    /\ TimedOut(wd[i].start_time)
    /\ LET r == active_incidents[i]
           o == heap[i][r]
       IN  /\ heap' = [heap EXCEPT ![i][r] = Escalated(o)]
           /\ IF Contains(o.assigned_agents, "communication")
              THEN /\ wd' = [wd EXCEPT ![i].pc = "notify_escalation",
                                       ![i].ev = Event("incident_escalation",
                                           Escalated(o), TimeoutExceeded,
                                           NoResp.diagnosis)]
                   /\ cosmos' = cosmos
                   /\ last' = [NoStep EXCEPT !.op = "watchdog_escalate",
                                  !.i = i, !.esc = TimeoutExceeded]
              ELSE /\ cosmos' = Persisted(i, Escalated(o), persistOK)
                   /\ wd' = [wd EXCEPT ![i].pc =
                                IF persistOK THEN "done" ELSE "crashed"]
                   /\ last' = [NoStep EXCEPT !.op = "watchdog_escalate",
                                  !.i = i, !.esc = TimeoutExceeded,
                                  !.exc = IF persistOK THEN "none" ELSE "persist",
                                  !.wrote = persistOK]
    /\ UNCHANGED <<now, active_incidents, pa, hnd>>
    /\ UNCHANGED <<resolution_vars, classifier_vars>>

\* the watchdog resumes after the send_batch of _notify_escalation
WatchdogResume(i, sendOK, persistOK) ==
    /\ wd[i].pc = "notify_escalation"
    /\ cosmos' = Persisted(i, Cur(i), sendOK /\ persistOK)
    /\ wd' = [wd EXCEPT ![i].pc = IF sendOK /\ persistOK THEN "done"
                                                         ELSE "crashed",
                        ![i].ev = NoEvent]
    /\ last' = [NoStep EXCEPT !.op = "watchdog_return", !.i = i,
                   !.exc = IF ~sendOK THEN "notify"
                           ELSE IF ~persistOK THEN "persist" ELSE "none",
                   !.ev = IF sendOK THEN wd[i].ev ELSE NoEvent,
                   !.wrote = sendOK /\ persistOK]
    /\ UNCHANGED <<now, active_incidents, heap, pa, hnd>>
    /\ UNCHANGED <<resolution_vars, classifier_vars>>

\* the incident _get_incident_from_db returns: a new object rebuilt from
\* the item, or None (0 here) when the read fails or there is no item
GetIncidentFromDb(i, readOK) ==
    IF readOK /\ cosmos[i] # NoItem THEN FromItem(cosmos[i]) ELSE NoObj

\* one pass within the timeout: read the persisted record and, when the
\* read returns an incident, put that NEW object into active_incidents and
\* go on with it; then sleep
WatchdogPoll(i, readOK) ==
    /\ wd[i].pc = "running"
    /\ WatchdogGoesOn(Cur(i))
    /\ ~TimedOut(wd[i].start_time)
    /\ LET updated_incident == GetIncidentFromDb(i, readOK)
           h1 == Sweep(heap[i], Live(hnd[i], 0) \ {0})
           s == FreeSlot(h1)
       IN  IF updated_incident # NoObj
           THEN /\ heap' = [heap EXCEPT ![i] = [h1 EXCEPT ![s] = updated_incident]]
                /\ active_incidents' = [active_incidents EXCEPT ![i] = s]
           ELSE UNCHANGED <<heap, active_incidents>>
    /\ last' = [NoStep EXCEPT !.op = "watchdog_poll", !.i = i,
                   !.exc = IF readOK THEN "none" ELSE "read"]
    /\ UNCHANGED <<now, cosmos, pa, wd, hnd>>
    /\ UNCHANGED <<resolution_vars, classifier_vars>>

\* ------------------------------------------------------- agent responses
ConfidenceThreshold == 80      \* 0.8, confidences are in hundredths

TopConfidences == {40, 80}
DiagnosisConfidences == {40, 90}
ActionLists == {<< >>, <<"ScaleOut">>}

\* the envelope _send_diagnostic_result builds: the confidence is a key of
\* the diagnosis object, the envelope has no "confidence" key of its own
DiagnosticResult(root_cause, c) ==
    [agent_type |-> "diagnostic", confidence |-> Absent,
     diagnosis |-> [root_cause |-> root_cause, confidence |-> c],
     success |-> FALSE, actions_taken |-> << >>]

\* the response_data handle_agent_response may be given (by the Event Hub
\* trigger or by the agent-response HTTP endpoint)
Responses ==
    {DiagnosticResult("high cpu usage", d) : d \in DiagnosisConfidences}
    \cup
    {[agent_type |-> "diagnostic", confidence |-> c,
      diagnosis |-> [root_cause |-> "high cpu usage", confidence |-> c],
      success |-> FALSE, actions_taken |-> << >>] : c \in TopConfidences}
    \cup
    {[agent_type |-> "resolution", confidence |-> Absent,
      diagnosis |-> NoResp.diagnosis,
      success |-> b, actions_taken |-> a] : b \in BOOLEAN, a \in ActionLists}
    \cup
    {[agent_type |-> "communication", confidence |-> Absent,
      diagnosis |-> NoResp.diagnosis,
      success |-> TRUE, actions_taken |-> << >>]}

\* response_data.get("confidence", 0.0)
GetConfidence(resp) == IF resp.confidence = Absent THEN 0 ELSE resp.confidence

\* a threshold that the confidence has to exceed
HighConfidenceStrict(c) == c > ConfidenceThreshold

\* confidence >= 0.8 in _handle_diagnostic_response
HighConfidence(c) == c >= ConfidenceThreshold

\* a handler that runs to its return in this step
HandlerReturns(i, k, resp, exc, ev, esc, wrote, newHeap) ==
    /\ hnd' = [hnd EXCEPT ![i][k] = IdleHandler]
    /\ heap' = [heap EXCEPT ![i] =
          Sweep(newHeap, Live([hnd[i] EXCEPT ![k] = IdleHandler],
                              active_incidents[i]) \ {0})]
    /\ last' = [op |-> "handler_return", i |-> i, k |-> k, resp |-> resp,
                before |-> IF hnd[i][k].pc = "idle" THEN Cur(i).status
                                                    ELSE "none",
                exc |-> exc, ev |-> ev, esc |-> esc,
                wrote |-> wrote]

\* a handler that suspends in the send_batch of event ev
HandlerSuspends(i, k, pc, r, resp, ev, esc, newHeap) ==
    /\ hnd' = [hnd EXCEPT ![i][k] =
          [pc |-> pc, ref |-> r, resp |-> resp, ev |-> ev]]
    /\ heap' = [heap EXCEPT ![i] = newHeap]
    /\ last' = [op |-> "handler_suspend", i |-> i, k |-> k, resp |-> resp,
                before |-> Cur(i).status,
                exc |-> "none", ev |-> NoEvent, esc |-> esc,
                wrote |-> FALSE]

\* _escalate_incident called by a handler on the object in slot r: to its
\* send_batch when communication is assigned, else through its persist and
\* the handler's return (a failed persist raises into the except of
\* handle_agent_response)
HandlerEscalates(i, k, r, o, resp, reason, persistOK) ==
    LET e == Escalated(o)
        h1 == [heap[i] EXCEPT ![r] = e]
    IN  IF Contains(o.assigned_agents, "communication")
        THEN /\ HandlerSuspends(i, k, "notify_escalation", r, resp,
                  Event("incident_escalation", e, reason, NoResp.diagnosis),
                  reason, h1)
             /\ cosmos' = cosmos
        ELSE /\ cosmos' = Persisted(i, e, persistOK)
             /\ HandlerReturns(i, k, resp,
                  IF persistOK THEN "none" ELSE "persist", NoEvent, reason,
                  persistOK, h1)

\* _handle_diagnostic_response up to its send_batch or its return
HandleDiagnosticResponse(i, k, r, resp, persistOK) ==
    LET o == heap[i][r]
        confidence == GetConfidence(resp)
    IN  IF HighConfidence(confidence)
        THEN /\ cosmos' = cosmos
             /\ IF Contains(o.assigned_agents, "resolution")
                THEN HandlerSuspends(i, k, "dispatch_to_resolution_agent", r,
                        resp,
                        Event("resolution_request", o, NoReason, resp.diagnosis),
                        NoReason, heap[i])
                ELSE IF Contains(o.assigned_agents, "communication")
                THEN HandlerSuspends(i, k, "dispatch_to_communication_agent",
                        r, resp,
                        Event("diagnosis_complete", o, NoReason,
                              NoResp.diagnosis),
                        NoReason, heap[i])
                ELSE HandlerReturns(i, k, resp, "none", NoEvent, NoReason,
                        FALSE, heap[i])
        ELSE HandlerEscalates(i, k, r, o, resp, LowConfidence(confidence),
                              persistOK)

\* a handler that keeps only the actions of the response it handles
HandleResolutionResponseReplacing(i, k, r, resp, persistOK) ==
    LET o == heap[i][r]
        x == [o EXCEPT !.resolution_actions = resp.actions_taken]
        d == [x EXCEPT !.status = "RESOLVED",
                       !.actual_resolution_time = now - x.created_at]
        h1 == [heap[i] EXCEPT ![r] = d]
    IN  IF resp.success
        THEN IF Contains(o.assigned_agents, "communication")
             THEN /\ HandlerSuspends(i, k, "notify_resolved", r, resp,
                       Event("incident_resolved", d, NoReason, NoResp.diagnosis),
                       NoReason, h1)
                  /\ cosmos' = cosmos
             ELSE /\ cosmos' = Persisted(i, d, persistOK)
                  /\ HandlerReturns(i, k, resp,
                       IF persistOK THEN "none" ELSE "persist", NoEvent,
                       NoReason, persistOK, h1)
        ELSE HandlerEscalates(i, k, r, x, resp, ResolutionFailed, persistOK)

\* _handle_resolution_response up to its send_batch or its return
HandleResolutionResponse(i, k, r, resp, persistOK) ==
    LET o == heap[i][r]
        x == [o EXCEPT !.resolution_actions = @ \o resp.actions_taken]
        d == [x EXCEPT !.status = "RESOLVED",
                       !.actual_resolution_time = now - x.created_at]
        h1 == [heap[i] EXCEPT ![r] = d]
    IN  IF resp.success
        THEN IF Contains(o.assigned_agents, "communication")
             THEN /\ HandlerSuspends(i, k, "notify_resolved", r, resp,
                       Event("incident_resolved", d, NoReason, NoResp.diagnosis),
                       NoReason, h1)
                  /\ cosmos' = cosmos
             ELSE /\ cosmos' = Persisted(i, d, persistOK)
                  /\ HandlerReturns(i, k, resp,
                       IF persistOK THEN "none" ELSE "persist", NoEvent,
                       NoReason, persistOK, h1)
        ELSE HandlerEscalates(i, k, r, x, resp, ResolutionFailed, persistOK)

\* an incident_id no process_alert of this orchestrator has produced
UnknownId == NumIncidents + 1

\* the incident_id a response may carry
ResponseIds == Incidents \cup {UnknownId}

\* incident_id in self.active_incidents
InActiveIncidents(id) ==
    id \in DOMAIN active_incidents /\ active_incidents[id] # 0

\* the unknown-incident branch that, by a slip, leaves through the except
HandlerIgnoresByException(id) ==
    /\ last' = [NoStep EXCEPT !.op = "handler_return", !.i = id,
                              !.exc = "lookup"]
    /\ UNCHANGED <<heap, hnd, cosmos>>

\* the branch of handle_agent_response for an incident_id that is not in
\* active_incidents: a warning, then return
HandlerIgnores(id) ==
    /\ last' = [NoStep EXCEPT !.op = "handler_return", !.i = id]
    /\ UNCHANGED <<heap, hnd, cosmos>>

\* handle_agent_response from its entry to its first send_batch, or to its
\* return when the branch taken sends nothing
HandleAgentResponse(i, k, resp, persistOK) ==
    /\ UNCHANGED <<now, active_incidents, pa, wd>>
    /\ IF ~InActiveIncidents(i)
       THEN k = 1 /\ HandlerIgnores(i)
       ELSE /\ hnd[i][k].pc = "idle"
            /\ \A j \in 1..(k - 1) : hnd[i][j].pc # "idle"
            /\ Len(Cur(i).resolution_actions) + Len(resp.actions_taken)
                  <= MaxActions
            /\ LET r == active_incidents[i]
               IN  IF resp.agent_type = "communication"
                   THEN /\ HandlerReturns(i, k, resp, "none", NoEvent,
                                          NoReason, FALSE, heap[i])
                        /\ cosmos' = cosmos
                   ELSE IF resp.agent_type = "diagnostic"
                   THEN HandleDiagnosticResponse(i, k, r, resp, persistOK)
                   ELSE HandleResolutionResponse(i, k, r, resp, persistOK)
    /\ UNCHANGED <<resolution_vars, classifier_vars>>

\* a handler resumes after its send_batch: a failed send raises into the
\* except of handle_agent_response; after a notice of escalation or of
\* resolution the handler persists the object it holds (twice, with the
\* same content, after an escalation notice of _handle_resolution_response),
\* then returns
HandlerResume(i, k, sendOK, persistOK) ==
    /\ hnd[i][k].pc # "idle"
    /\ UNCHANGED <<now, active_incidents, pa, wd>>
    /\ LET t == hnd[i][k]
           persists == t.pc \in {"notify_escalation", "notify_resolved"}
       IN  IF ~sendOK
           THEN /\ HandlerReturns(i, k, t.resp, "dispatch", NoEvent,
                                  NoReason, FALSE, heap[i])
                /\ cosmos' = cosmos
           ELSE /\ cosmos' = Persisted(i, heap[i][t.ref], persists /\ persistOK)
                /\ HandlerReturns(i, k, t.resp,
                     IF persists /\ ~persistOK THEN "persist" ELSE "none",
                     t.ev, NoReason, persists /\ persistOK, heap[i])
    /\ UNCHANGED <<resolution_vars, classifier_vars>>

Next ==
    \/ Tick
    \/ \E i \in Incidents, sev \in Severities, ok \in BOOLEAN :
         ProcessAlert(i, sev, ok)
    \/ \E i \in Incidents, sendOK \in BOOLEAN, persistOK \in BOOLEAN :
         ProcessAlertResume(i, sendOK, persistOK)
    \/ \E i \in Incidents, sendOK \in BOOLEAN, persistOK \in BOOLEAN :
         ProcessAlertNotified(i, sendOK, persistOK)
    \/ \E i \in Incidents : WatchdogExit(i)
    \/ \E i \in Incidents, persistOK \in BOOLEAN : WatchdogTimeout(i, persistOK)
    \/ \E i \in Incidents, sendOK \in BOOLEAN, persistOK \in BOOLEAN :
         WatchdogResume(i, sendOK, persistOK)
    \/ \E i \in Incidents, readOK \in BOOLEAN : WatchdogPoll(i, readOK)
    \/ \E i \in Incidents, k \in HandlerIds, resp \in Responses,
          persistOK \in BOOLEAN : HandleAgentResponse(i, k, resp, persistOK)
    \/ \E i \in Incidents, k \in HandlerIds, sendOK \in BOOLEAN,
          persistOK \in BOOLEAN : HandlerResume(i, k, sendOK, persistOK)

Spec == Init /\ [][Next]_vars

\* the event loop runs every task that is ready and time goes on: a pending
\* send_batch completes or fails, the watchdog wakes from its sleep
WatchdogRuns(i) ==
    \/ WatchdogExit(i)
    \/ \E persistOK \in BOOLEAN : WatchdogTimeout(i, persistOK)
    \/ \E sendOK \in BOOLEAN, persistOK \in BOOLEAN :
         WatchdogResume(i, sendOK, persistOK)
    \/ \E readOK \in BOOLEAN : WatchdogPoll(i, readOK)

TasksResume(i) ==
    \/ \E sendOK \in BOOLEAN, persistOK \in BOOLEAN :
         ProcessAlertResume(i, sendOK, persistOK)
    \/ \E sendOK \in BOOLEAN, persistOK \in BOOLEAN :
         ProcessAlertNotified(i, sendOK, persistOK)
    \/ \E k \in HandlerIds, sendOK \in BOOLEAN, persistOK \in BOOLEAN :
         HandlerResume(i, k, sendOK, persistOK)

FairSpec ==
    /\ Spec
    /\ WF_vars(Tick)
    /\ \A i \in Incidents : WF_vars(WatchdogRuns(i)) /\ WF_vars(TasksResume(i))

\* the time upsert_item may take in process_alert
PersistTimes == {0, 1}

\* the orchestrator when the persist of process_alert takes time, for HIGH
\* alerts
TimedNext ==
    \/ Tick
    \/ \E i \in Incidents, ok \in BOOLEAN, elapsed \in PersistTimes :
         ProcessAlertTimed(i, "HIGH", ok, elapsed)
    \/ \E i \in Incidents, sendOK \in BOOLEAN, persistOK \in BOOLEAN :
         ProcessAlertResume(i, sendOK, persistOK)
    \/ \E i \in Incidents, sendOK \in BOOLEAN, persistOK \in BOOLEAN :
         ProcessAlertNotified(i, sendOK, persistOK)
    \/ \E i \in Incidents : WatchdogExit(i)
    \/ \E i \in Incidents, persistOK \in BOOLEAN : WatchdogTimeout(i, persistOK)
    \/ \E i \in Incidents, sendOK \in BOOLEAN, persistOK \in BOOLEAN :
         WatchdogResume(i, sendOK, persistOK)
    \/ \E i \in Incidents, readOK \in BOOLEAN : WatchdogPoll(i, readOK)
    \/ \E i \in Incidents, k \in HandlerIds, resp \in Responses,
          persistOK \in BOOLEAN : HandleAgentResponse(i, k, resp, persistOK)
    \/ \E i \in Incidents, k \in HandlerIds, sendOK \in BOOLEAN,
          persistOK \in BOOLEAN : HandlerResume(i, k, sendOK, persistOK)

TimedSpec == Init /\ [][TimedNext]_vars

\* the orchestrator when responses also arrive for an incident_id it has
\* never registered, for alerts of one severity
StrangerSeverities == {"HIGH"}

StrangerNext ==
    \/ Tick
    \/ \E i \in Incidents, sev \in StrangerSeverities, ok \in BOOLEAN :
         ProcessAlert(i, sev, ok)
    \/ \E i \in Incidents, sendOK \in BOOLEAN, persistOK \in BOOLEAN :
         ProcessAlertResume(i, sendOK, persistOK)
    \/ \E i \in Incidents, sendOK \in BOOLEAN, persistOK \in BOOLEAN :
         ProcessAlertNotified(i, sendOK, persistOK)
    \/ \E i \in Incidents : WatchdogExit(i)
    \/ \E i \in Incidents, persistOK \in BOOLEAN : WatchdogTimeout(i, persistOK)
    \/ \E i \in Incidents, sendOK \in BOOLEAN, persistOK \in BOOLEAN :
         WatchdogResume(i, sendOK, persistOK)
    \/ \E i \in Incidents, readOK \in BOOLEAN : WatchdogPoll(i, readOK)
    \/ \E i \in ResponseIds, k \in HandlerIds, resp \in Responses,
          persistOK \in BOOLEAN : HandleAgentResponse(i, k, resp, persistOK)
    \/ \E i \in Incidents, k \in HandlerIds, sendOK \in BOOLEAN,
          persistOK \in BOOLEAN : HandlerResume(i, k, sendOK, persistOK)

StrangerSpec == Init /\ [][StrangerNext]_vars

\* -------------------------------------------------------- resolution agent
MaxPlanLen == 2

ActionTypes ==
    {"SCALE_OUT", "SCALE_UP", "RESTART_SERVICE", "CLEAR_CACHE",
     "OPTIMIZE_DATABASE", "UPDATE_CONFIG", "ROLLBACK_DEPLOYMENT",
     "CIRCUIT_BREAKER"}
ActionStatuses == {"PENDING", "EXECUTING", "COMPLETED", "FAILED", "ROLLED_BACK"}

\* safety_limits["max_scale_instances"]
MaxScaleInstances == 20

\* the parameters the capability handlers read
NoParams ==
    [is_dict |-> TRUE, target_instances |-> Absent, new_sku |-> "",
     cache_type |-> ""]
\* parameters that are not a dict: params.get raises in the handler
NoneParams == [NoParams EXCEPT !.is_dict = FALSE]
NoResult == [success |-> FALSE, message |-> <<"none">>]
NoAction == [type |-> "none"]

\* ResolutionAction(..., status=ActionStatus.PENDING)
ResolutionAction(type, parameters) ==
    [type |-> type, parameters |-> parameters, status |-> "PENDING",
     result |-> NoResult, rollback_action |-> NoAction]

\* the words of the category tests that occur in root_cause.lower()
RootCauses ==
    {"high cpu usage", "High_CPU saturation", "Memory leak",
     "database timeout", "slow response", "error rate spike",
     "unhandled exception", "disk full", "Memory and CPU pressure"}
WordsIn(root_cause) ==
    CASE root_cause = "high cpu usage" -> {"cpu"}
      [] root_cause = "Memory and CPU pressure" -> {"memory", "cpu"}
      [] root_cause = "High_CPU saturation" -> {"high_cpu", "cpu"}
      [] root_cause = "Memory leak" -> {"memory"}
      [] root_cause = "database timeout" -> {"database", "timeout"}
      [] root_cause = "slow response" -> {"response"}
      [] root_cause = "error rate spike" -> {"error"}
      [] root_cause = "unhandled exception" -> {"exception"}
      [] OTHER -> {}

\* a cpu plan that tunes the configuration from 90 percent on
PlanCpuResolutionFromNinety(incident_data) ==
    <<ResolutionAction("SCALE_OUT", [NoParams EXCEPT !.target_instances = 5])>>
    \o (IF incident_data.metrics.cpu_percentage >= 90
        THEN <<ResolutionAction("UPDATE_CONFIG", NoParams)>>
        ELSE << >>)

\* _plan_cpu_resolution
PlanCpuResolution(incident_data) ==
    <<ResolutionAction("SCALE_OUT", [NoParams EXCEPT !.target_instances = 5])>>
    \o (IF incident_data.metrics.cpu_percentage > 90
        THEN <<ResolutionAction("UPDATE_CONFIG", NoParams)>>
        ELSE << >>)

\* _plan_memory_resolution
PlanMemoryResolution(incident_data) ==
    <<ResolutionAction("RESTART_SERVICE", NoParams)>>
    \o (IF incident_data.metrics.memory_percentage > 85
        THEN <<ResolutionAction("SCALE_UP", [NoParams EXCEPT !.new_sku = "P2v3"])>>
        ELSE << >>)

\* _plan_database_resolution
PlanDatabaseResolution ==
    <<ResolutionAction("OPTIMIZE_DATABASE", NoParams),
      ResolutionAction("CLEAR_CACHE", [NoParams EXCEPT !.cache_type = "query_cache"])>>

\* _plan_performance_resolution
PlanPerformanceResolution ==
    <<ResolutionAction("CIRCUIT_BREAKER", NoParams),
      ResolutionAction("SCALE_OUT", [NoParams EXCEPT !.target_instances = 3])>>

\* _check_recent_deployment: the placeholder always reports a deployment
CheckRecentDeployment == TRUE

\* _plan_error_resolution
PlanErrorResolution ==
    IF CheckRecentDeployment
    THEN <<ResolutionAction("ROLLBACK_DEPLOYMENT", NoParams)>>
    ELSE <<ResolutionAction("RESTART_SERVICE", NoParams)>>

\* _plan_generic_resolution
PlanGenericResolution ==
    <<ResolutionAction("CLEAR_CACHE",
                       [NoParams EXCEPT !.cache_type = "application_cache"]),
      ResolutionAction("SCALE_OUT", [NoParams EXCEPT !.target_instances = 2])>>

\* _estimate_action_duration
EstimateActionDuration(type) ==
    CASE type = "SCALE_OUT" -> 120 [] type = "SCALE_UP" -> 180
      [] type = "RESTART_SERVICE" -> 60 [] type = "CLEAR_CACHE" -> 30
      [] type = "OPTIMIZE_DATABASE" -> 45 [] type = "UPDATE_CONFIG" -> 30
      [] type = "ROLLBACK_DEPLOYMENT" -> 300 [] type = "CIRCUIT_BREAKER" -> 15
      [] OTHER -> 60

RECURSIVE SumDurations(_)
SumDurations(actions) ==
    IF actions = << >> THEN 0
    ELSE EstimateActionDuration(Head(actions).type) + SumDurations(Tail(actions))

\* a chain that tests the memory category before the cpu category
CategoryActionsMemoryFirst(incident_data, root_cause) ==
    LET w == WordsIn(root_cause)
    IN  IF "memory" \in w THEN PlanMemoryResolution(incident_data)
        ELSE IF "high_cpu" \in w \/ "cpu" \in w
        THEN PlanCpuResolution(incident_data)
        ELSE IF "database" \in w THEN PlanDatabaseResolution
        ELSE IF "timeout" \in w \/ "response" \in w
        THEN PlanPerformanceResolution
        ELSE IF "error" \in w \/ "exception" \in w THEN PlanErrorResolution
        ELSE << >>

\* the actions chosen by the if/elif chain of _create_resolution_plan
CategoryActions(incident_data, root_cause) ==
    LET w == WordsIn(root_cause)
    IN  IF "high_cpu" \in w \/ "cpu" \in w THEN PlanCpuResolution(incident_data)
        ELSE IF "memory" \in w THEN PlanMemoryResolution(incident_data)
        ELSE IF "database" \in w THEN PlanDatabaseResolution
        ELSE IF "timeout" \in w \/ "response" \in w
        THEN PlanPerformanceResolution
        ELSE IF "error" \in w \/ "exception" \in w THEN PlanErrorResolution
        ELSE << >>

\* confidence < 0.7 in _create_resolution_plan, in hundredths
ApprovalConfidence == 70

\* diagnosis.get("confidence", 0.0)
PlanConfidence(diagnosis) ==
    IF diagnosis.confidence = Absent THEN 0 ELSE diagnosis.confidence

\* a test against 0.5 in the place of 0.7
LowPlanConfidenceBelowHalf(confidence) == confidence < ApprovalConfidence - 20

\* if confidence < 0.7
LowPlanConfidence(confidence) == confidence < ApprovalConfidence

\* any(action.type in [ROLLBACK_DEPLOYMENT, RESTART_SERVICE] ...)
HasRiskyAction(actions) ==
    \E n \in 1..Len(actions) :
        actions[n].type \in {"ROLLBACK_DEPLOYMENT", "RESTART_SERVICE"}

\* _create_resolution_plan
CreateResolutionPlan(incident_data, diagnosis) ==
    LET confidence == PlanConfidence(diagnosis)
        c == CategoryActions(incident_data, diagnosis.root_cause)
        actions == IF c = << >> THEN PlanGenericResolution ELSE c
        risky == HasRiskyAction(actions)
    IN  [incident_id |-> incident_data.id,
         actions |-> actions,
         estimated_duration |-> SumDurations(actions),
         risk_level |-> IF LowPlanConfidence(confidence) THEN "high"
                        ELSE IF risky THEN "medium" ELSE "low",
         requires_approval |->
            IF LowPlanConfidence(confidence) THEN TRUE
            ELSE IF risky THEN incident_data.severity = "critical"
            ELSE FALSE]

\* the resolution_request events the agent may be given
IncidentData ==
    [id : Incidents,
     severity : {"critical", "high", "IncidentSeverity.CRITICAL"},
     metrics : [cpu_percentage : {50, 90, 95}, memory_percentage : {50, 90}]]
Diagnoses ==
    [root_cause : RootCauses, confidence : {Absent, 50, 70, 90}]

ApprovalDecisions == {"APPROVE", "DENY"}

\* the events _request_approval and _send_resolution_result build
ApprovalRequest(p) ==
    [event_type |-> "approval_request", incident_id |-> p.incident_id,
     risk_level |-> p.risk_level, success |-> FALSE, actions_taken |-> << >>]
ResolutionResult(incident_id, success, actions_taken) ==
    [event_type |-> "resolution_result", incident_id |-> incident_id,
     risk_level |-> "", success |-> success, actions_taken |-> actions_taken]

\* a gate that lets a high-risk plan through
ApprovalGateButHighRisk(p) == p.requires_approval /\ p.risk_level # "high"

\* if resolution_plan.requires_approval
ApprovalGate(p) == p.requires_approval

\* execute_resolution up to its first suspension: the plan is created, then
\* either the approval request is being sent or _execute_plan begins
ExecuteResolution(incident_data, diagnosis) ==
    /\ rtask.pc = "idle"
    /\ LET p == CreateResolutionPlan(incident_data, diagnosis)
       IN  /\ plan' = p
           /\ rtask' = [IdleResolution EXCEPT
                 !.pc = IF ApprovalGate(p) THEN "request_approval"
                                           ELSE "execute",
                 !.n = IF ApprovalGate(p) THEN 0 ELSE 1]
    /\ capability_calls' = << >>
    /\ outbox' = << >>
    /\ UNCHANGED <<approval_responses, orchestrator_vars,
                   rollback_enabled, classifier_vars>>
    /\ request' = [event_type |-> "resolution_request",
                   incident_data |-> incident_data,
                   diagnosis |-> diagnosis]

\* execute_resolution resumes after the send_batch of _request_approval: it
\* returns "requires human approval", or the exception goes to its except
RequestApprovalResume(sendOK) ==
    /\ rtask.pc = "request_approval"
    /\ IF sendOK
       THEN /\ outbox' = Append(outbox, ApprovalRequest(plan))
            /\ rtask' = [rtask EXCEPT !.pc = "idle", !.outcome = "returned"]
       ELSE /\ outbox' = outbox
            /\ rtask' = [rtask EXCEPT !.pc = "send_failure_result"]
    /\ UNCHANGED <<plan, capability_calls, approval_responses,
                   orchestrator_vars,
                   rollback_enabled, request, classifier_vars>>

\* the approval_response branch of process_event_hub_message: the decision
\* is logged
HandleApprovalResponse(incident_id, response) ==
    /\ approval_responses' = approval_responses \cup {<<incident_id, response>>}
    /\ UNCHANGED <<plan, rtask, capability_calls, outbox, orchestrator_vars,
                   rollback_enabled, request, classifier_vars>>

\* params.get("target_instances", 3)
TargetInstances(parameters) ==
    IF parameters.target_instances = Absent THEN 3
    ELSE parameters.target_instances

\* the safety check of _execute_scale_out
ExceedsSafetyLimit(a) ==
    a.type = "SCALE_OUT" /\ TargetInstances(a.parameters) > MaxScaleInstances

SafetyLimitResult(a) ==
    [success |-> FALSE,
     message |-> <<"Target instances exceeds safety limit",
                   TargetInstances(a.parameters)>>]
SuccessResult(a) ==
    [success |-> TRUE, message |-> <<"Successfully", a.type>>]

\* the except of a handler: what it raised becomes a failure result
HandlerRaises(a) == ~a.parameters.is_dict
ExceptionResult(a) == [success |-> FALSE, message |-> <<"failed", a.type>>]

\* a handler returns without reaching its capability call
HandlerFails(a) == HandlerRaises(a) \/ ExceedsSafetyLimit(a)
FailureResult(a) ==
    IF HandlerRaises(a) THEN ExceptionResult(a) ELSE SafetyLimitResult(a)

\* rollback at every failure, also with rollback disabled
RollbackDueAlways(a) == a.rollback_action # NoAction

\* not result.get("success") and self.rollback_enabled and
\* action.rollback_action, for an action that has failed
RollbackDue(a) == rollback_enabled /\ a.rollback_action # NoAction

\* the capability call a handler makes once its checks have passed
CapabilityCall(a) ==
    [type |-> a.type,
     target_instances |-> IF a.type = "SCALE_OUT"
                          THEN TargetInstances(a.parameters)
                          ELSE a.parameters.target_instances,
     new_sku |-> a.parameters.new_sku]

\* the entry _execute_plan appends to results for an action
ActionResult(n, a, result) ==
    [action_id |-> n, type |-> a.type, success |-> result.success,
     message |-> result.message]

\* any(...) in the place of all(...)
AnySucceeded(results) == \E n \in 1..Len(results) : results[n].success

\* all(result.get("success", False) for result in execution_results)
AllSucceeded(results) == \A n \in 1..Len(results) : results[n].success

\* a loop that gives up the plan at the first failed action
AfterActionUntilFailure(n, results) ==
    IF n < Len(plan.actions) /\ results[Len(results)].success
    THEN [pc |-> "execute", n |-> n + 1, results |-> results,
          outcome |-> "none"]
    ELSE [pc |-> "send_result", n |-> n, results |-> results,
          outcome |-> "none"]

\* _execute_plan goes on after action n: the next action, or after the last
\* one _send_resolution_result
AfterAction(n, results) ==
    IF n < Len(plan.actions)
    THEN [pc |-> "execute", n |-> n + 1, results |-> results,
          outcome |-> "none"]
    ELSE [pc |-> "send_result", n |-> n, results |-> results,
          outcome |-> "none"]

\* one pass of the loop of _execute_plan up to the sleep of a capability
\* call: the action becomes EXECUTING and its handler runs; a handler whose
\* safety check fails or that raises returns at once, the action is FAILED,
\* and its rollback action, if due, is executed through the same dispatch
ExecuteAction ==
    /\ rtask.pc = "execute"
    /\ LET n == rtask.n
           a == plan.actions[n]
           r == a.rollback_action
       IN  IF ~HandlerFails(a)
           THEN /\ plan' = [plan EXCEPT !.actions[n].status = "EXECUTING"]
                /\ capability_calls' = Append(capability_calls, CapabilityCall(a))
                /\ rtask' = [rtask EXCEPT !.pc = "capability"]
           ELSE LET failed == [a EXCEPT !.status = "FAILED",
                                        !.result = FailureResult(a)]
                    results == Append(rtask.results,
                                      ActionResult(n, a, FailureResult(a)))
                IN  /\ plan' = [plan EXCEPT !.actions[n] = failed]
                    /\ IF RollbackDue(a) /\ ~HandlerFails(r)
                       THEN /\ capability_calls' =
                                 Append(capability_calls, CapabilityCall(r))
                            /\ rtask' = [rtask EXCEPT !.pc = "rollback_capability",
                                                      !.results = results]
                       ELSE /\ capability_calls' = capability_calls
                            /\ rtask' = AfterAction(n, results)
    /\ UNCHANGED <<approval_responses, outbox, orchestrator_vars,
                   rollback_enabled, request, classifier_vars>>

\* the capability call of action n returns: the handler reports success, the
\* action is COMPLETED and its result recorded
CapabilityReturns ==
    /\ rtask.pc = "capability"
    /\ LET n == rtask.n
           a == plan.actions[n]
       IN  /\ plan' = [plan EXCEPT !.actions[n].status = "COMPLETED",
                                   !.actions[n].result = SuccessResult(a)]
           /\ rtask' = AfterAction(n, Append(rtask.results,
                                      ActionResult(n, a, SuccessResult(a))))
    /\ UNCHANGED <<capability_calls, approval_responses, outbox,
                   orchestrator_vars,
                   rollback_enabled, request, classifier_vars>>

\* the capability call of the rollback action of action n returns with
\* success: the action is ROLLED_BACK
RollbackReturns ==
    /\ rtask.pc = "rollback_capability"
    /\ plan' = [plan EXCEPT !.actions[rtask.n].status = "ROLLED_BACK"]
    /\ rtask' = AfterAction(rtask.n, rtask.results)
    /\ UNCHANGED <<capability_calls, approval_responses, outbox,
                   orchestrator_vars,
                   rollback_enabled, request, classifier_vars>>

\* execute_resolution resumes after the send_batch of the resolution
\* result: it returns, or the exception goes to its except
SendResultResume(sendOK) ==
    /\ rtask.pc = "send_result"
    /\ IF sendOK
       THEN /\ outbox' = Append(outbox,
                 ResolutionResult(plan.incident_id, AllSucceeded(rtask.results),
                                  rtask.results))
            /\ rtask' = [rtask EXCEPT !.pc = "idle", !.outcome = "returned"]
       ELSE /\ outbox' = outbox
            /\ rtask' = [rtask EXCEPT !.pc = "send_failure_result"]
    /\ UNCHANGED <<plan, capability_calls, approval_responses,
                   orchestrator_vars,
                   rollback_enabled, request, classifier_vars>>

\* the except of execute_resolution: a failure result with no actions is
\* sent, then the exception is raised again
SendFailureResultResume(sendOK) ==
    /\ rtask.pc = "send_failure_result"
    /\ outbox' = IF sendOK
                 THEN Append(outbox,
                             ResolutionResult(plan.incident_id, FALSE, << >>))
                 ELSE outbox
    /\ rtask' = [rtask EXCEPT !.pc = "idle", !.outcome = "raised"]
    /\ UNCHANGED <<plan, capability_calls, approval_responses,
                   orchestrator_vars,
                   rollback_enabled, request, classifier_vars>>

\* the resolution agent behind its Event Hub trigger; the planner attaches
\* no rollback action, so no rollback runs here
ResolutionNext ==
    \/ \E incident_data \in IncidentData, diagnosis \in Diagnoses :
         ExecuteResolution(incident_data, diagnosis)
    \/ \E sendOK \in BOOLEAN : RequestApprovalResume(sendOK)
    \/ \E id \in Incidents, response \in ApprovalDecisions :
         HandleApprovalResponse(id, response)
    \/ ExecuteAction
    \/ CapabilityReturns
    \/ \E sendOK \in BOOLEAN : SendResultResume(sendOK)
    \/ \E sendOK \in BOOLEAN : SendFailureResultResume(sendOK)

ResolutionSpec == Init /\ [][ResolutionNext]_vars

\* the tasks of the resolution agent that are ready run: a pending
\* send_batch completes or fails, the executor takes its next step
ResolutionRuns ==
    \/ \E sendOK \in BOOLEAN : RequestApprovalResume(sendOK)
    \/ ExecuteAction
    \/ CapabilityReturns
    \/ \E sendOK \in BOOLEAN : SendResultResume(sendOK)
    \/ \E sendOK \in BOOLEAN : SendFailureResultResume(sendOK)

FairResolutionSpec == ResolutionSpec /\ WF_vars(ResolutionRuns)

\* the orchestrator and the approval path of the resolution agent side by
\* side, for HIGH alerts, diagnostic results, resolution requests whose plan
\* requires approval (a diagnosis of confidence 0.5) and the decision DENY
DenialRequests ==
    {d \in IncidentData : d.severity = "high" /\ d.metrics.cpu_percentage = 95
                          /\ d.metrics.memory_percentage = 50}
DenialDiagnoses ==
    {g \in Diagnoses : g.root_cause = "high cpu usage" /\ g.confidence = 50}

DenialNext ==
    \/ Tick
    \/ \E i \in Incidents, ok \in BOOLEAN : ProcessAlert(i, "HIGH", ok)
    \/ \E i \in Incidents, sendOK \in BOOLEAN, persistOK \in BOOLEAN :
         ProcessAlertResume(i, sendOK, persistOK)
    \/ \E i \in Incidents, sendOK \in BOOLEAN, persistOK \in BOOLEAN :
         ProcessAlertNotified(i, sendOK, persistOK)
    \/ \E i \in Incidents : WatchdogExit(i)
    \/ \E i \in Incidents, persistOK \in BOOLEAN : WatchdogTimeout(i, persistOK)
    \/ \E i \in Incidents, sendOK \in BOOLEAN, persistOK \in BOOLEAN :
         WatchdogResume(i, sendOK, persistOK)
    \/ \E i \in Incidents, readOK \in BOOLEAN : WatchdogPoll(i, readOK)
    \/ \E i \in Incidents, k \in HandlerIds, persistOK \in BOOLEAN :
       \E resp \in {r \in Responses : r.agent_type = "diagnostic"} :
         HandleAgentResponse(i, k, resp, persistOK)
    \/ \E i \in Incidents, k \in HandlerIds, sendOK \in BOOLEAN,
          persistOK \in BOOLEAN : HandlerResume(i, k, sendOK, persistOK)
    \/ \E incident_data \in DenialRequests, diagnosis \in DenialDiagnoses :
         ExecuteResolution(incident_data, diagnosis)
    \/ \E sendOK \in BOOLEAN : RequestApprovalResume(sendOK)
    \/ \E sendOK \in BOOLEAN : SendFailureResultResume(sendOK)
    \/ \E id \in Incidents : HandleApprovalResponse(id, "DENY")

DenialSpec == Init /\ [][DenialNext]_vars

FairDenialSpec ==
    /\ DenialSpec
    /\ WF_vars(Tick)
    /\ \A i \in Incidents : WF_vars(WatchdogRuns(i)) /\ WF_vars(TasksResume(i))
    /\ WF_vars(ResolutionRuns)

\* the plans _execute_plan may be given: actions with targets below, at and
\* above the safety limit, with and without a rollback action
SampleActions ==
    LET plain ==
          {ResolutionAction("SCALE_OUT", [NoParams EXCEPT !.target_instances = t]) :
             t \in {Absent, 5, MaxScaleInstances, MaxScaleInstances + 1}}
          \cup
          {ResolutionAction("SCALE_UP", [NoParams EXCEPT !.new_sku = "P2v3",
                                          !.target_instances = t]) :
             t \in {Absent, MaxScaleInstances + 1}}
          \cup {ResolutionAction("CLEAR_CACHE", NoParams),
                ResolutionAction("CLEAR_CACHE", NoneParams)}
        rollbacks ==
          {NoAction,
           ResolutionAction("RESTART_SERVICE", NoneParams),
           ResolutionAction("SCALE_OUT", [NoParams EXCEPT !.target_instances = 2]),
           ResolutionAction("SCALE_OUT",
              [NoParams EXCEPT !.target_instances = MaxScaleInstances + 1])}
    IN  {[a EXCEPT !.rollback_action = r] : a \in plain, r \in rollbacks}

SamplePlans ==
    {[incident_id |-> 1, actions |-> actions,
      estimated_duration |-> SumDurations(actions),
      risk_level |-> "low", requires_approval |-> FALSE] :
       actions \in UNION {[1..len -> SampleActions] : len \in 1..MaxPlanLen}}

\* _execute_plan called with one of the sample plans
ExecutorInit ==
    /\ now = 0
    /\ active_incidents = [i \in Incidents |-> 0]
    /\ heap = [i \in Incidents |-> [s \in Slots |-> NoObj]]
    /\ cosmos = [i \in Incidents |-> NoItem]
    /\ pa = [i \in Incidents |-> IdleTask]
    /\ wd = [i \in Incidents |-> NoWatchdog]
    /\ hnd = [i \in Incidents |-> [k \in HandlerIds |-> IdleHandler]]
    /\ last = NoStep
    /\ plan \in SamplePlans
    /\ rollback_enabled \in BOOLEAN
    /\ request = NoRequest
    /\ alert_data = NoAlert
    /\ ctask = IdleClassifier
    /\ rtask = [IdleResolution EXCEPT !.pc = "execute", !.n = 1]
    /\ capability_calls = << >>
    /\ approval_responses = {}
    /\ outbox = << >>

ExecutorNext ==
    \/ ExecuteAction
    \/ CapabilityReturns
    \/ RollbackReturns
    \/ \E sendOK \in BOOLEAN : SendResultResume(sendOK)
    \/ \E sendOK \in BOOLEAN : SendFailureResultResume(sendOK)

ExecutorSpec == ExecutorInit /\ [][ExecutorNext]_vars

\* ------------------------------------------------ persisting and reloading
\* incidents as they may stand in active_incidents: every severity and
\* status, with and without agents, actions, metrics and resolution time
SampleIncidents ==
    [id : {1},
     title : {"Unknown Incident", "High CPU"}, description : {""},
     severity : Severities, status : Statuses,
     source : {"monitoring"},
     metrics : {NoMetrics, [cpu_percentage |-> 95]},
     created_at : {0}, updated_at : 0..1,
     assigned_agents : {<< >>, <<"diagnostic", "communication">>},
     resolution_actions : ActionLists,
     estimated_resolution_time : {None},
     actual_resolution_time : {None, 1}]

\* one sample incident per id is in active_incidents, nothing is persisted
StoreInit ==
    /\ now = 0
    /\ active_incidents = [i \in Incidents |-> 1]
    /\ \E o \in SampleIncidents :
         heap = [i \in Incidents |->
                   [s \in Slots |-> IF s = 1 THEN [o EXCEPT !.id = i]
                                    ELSE NoObj]]
    /\ cosmos = [i \in Incidents |-> NoItem]
    /\ pa = [i \in Incidents |-> IdleTask]
    /\ wd = [i \in Incidents |-> NoWatchdog]
    /\ hnd = [i \in Incidents |-> [k \in HandlerIds |-> IdleHandler]]
    /\ last = NoStep
    /\ plan = NoPlan
    /\ rtask = IdleResolution
    /\ capability_calls = << >>
    /\ approval_responses = {}
    /\ outbox = << >>
    /\ rollback_enabled = RollbackEnabled
    /\ request = NoRequest
    /\ alert_data = NoAlert
    /\ ctask = IdleClassifier

\* _persist_incident of the incident in active_incidents
PersistIncident(i, persistOK) ==
    /\ active_incidents[i] = 1
    /\ cosmos' = Persisted(i, Cur(i), persistOK)
    /\ last' = [NoStep EXCEPT !.op = "persist", !.i = i,
                   !.wrote = persistOK,
                   !.exc = IF persistOK THEN "none" ELSE "persist"]
    /\ UNCHANGED <<now, active_incidents, heap, pa, wd, hnd>>
    /\ UNCHANGED <<resolution_vars, classifier_vars>>

\* _get_incident_from_db: the incident it returns is a new object, put into
\* active_incidents next to the one that was persisted
ReloadIncident(i, readOK) ==
    /\ active_incidents[i] = 1
    /\ LET updated_incident == GetIncidentFromDb(i, readOK)
       IN  IF updated_incident # NoObj
           THEN /\ heap' = [heap EXCEPT ![i][2] = updated_incident]
                /\ active_incidents' = [active_incidents EXCEPT ![i] = 2]
           ELSE UNCHANGED <<heap, active_incidents>>
    /\ last' = [NoStep EXCEPT !.op = "reload", !.i = i,
                   !.exc = IF readOK THEN "none" ELSE "read"]
    /\ UNCHANGED <<now, cosmos, pa, wd, hnd>>
    /\ UNCHANGED <<resolution_vars, classifier_vars>>

StoreNext ==
    \/ \E i \in Incidents, persistOK \in BOOLEAN : PersistIncident(i, persistOK)
    \/ \E i \in Incidents, readOK \in BOOLEAN : ReloadIncident(i, readOK)

StoreSpec == StoreInit /\ [][StoreNext]_vars

\* --------------------------------------------------- severity classifier
\* a metric value that is text, not a number
Text == -2

\* the alerts: metrics is a dict whose entries are missing, numbers around
\* the thresholds or text, or the key is missing, or its value is None or a
\* list
MetricNames == {"cpu_percentage", "memory_percentage", "error_rate"}
Alerts ==
    {[metrics_type |-> "dict", metrics |-> m] :
        m \in [cpu_percentage : {Absent, Text, 70, 71, 80, 81, 90, 91},
               memory_percentage : {Absent, Text, 75, 76, 85, 86, 95, 96},
               error_rate : {Absent, Text, 10, 11, 20, 21, 50, 51}]}
    \cup
    {[metrics_type |-> t,
      metrics |-> [name \in MetricNames |-> Absent]] :
        t \in {"missing", "None", "list"}}

\* what the chat completion does: it raises, or answers with a text
Answers ==
    {"CRITICAL", "HIGH", "MEDIUM", "LOW", " medium ", "Severity: HIGH", ""}
InferenceOutcomes == {"raises"} \cup Answers

\* content.strip().upper()
StripUpper(content) ==
    IF content = " medium " THEN "MEDIUM"
    ELSE IF content = "Severity: HIGH" THEN "SEVERITY: HIGH"
    ELSE content

\* IncidentSeverity(severity_text.lower()): the member, or ValueError
SeverityOfText(severity_text) ==
    IF severity_text \in Severities THEN severity_text ELSE "ValueError"

\* metrics.get(name, 0) of the fallback
MetricsGet(alert, name) ==
    IF alert.metrics[name] = Absent THEN 0 ELSE alert.metrics[name]

\* value > threshold in Python: TypeError when value is text
GreaterThan(value, threshold) ==
    IF value = Text THEN "TypeError"
    ELSE IF value > threshold THEN "True" ELSE "False"

\* a or b or c, evaluated from the left until one is not False
AnyOf(a, b, c) == IF a # "False" THEN a ELSE IF b # "False" THEN b ELSE c

\* a rung that also takes the threshold itself
RungInclusive(alert, cpu, memory, errors) ==
    AnyOf(GreaterThan(MetricsGet(alert, "cpu_percentage"), cpu - 1),
          GreaterThan(MetricsGet(alert, "memory_percentage"), memory - 1),
          GreaterThan(MetricsGet(alert, "error_rate"), errors - 1))

\* one rung of the ladder
Rung(alert, cpu, memory, errors) ==
    AnyOf(GreaterThan(MetricsGet(alert, "cpu_percentage"), cpu),
          GreaterThan(MetricsGet(alert, "memory_percentage"), memory),
          GreaterThan(MetricsGet(alert, "error_rate"), errors))

\* _fallback_severity_classification: the severity, or the exception that
\* metrics.get or a comparison raises
FallbackSeverityClassification(alert) ==
    IF alert.metrics_type \in {"None", "list"} THEN "AttributeError"
    ELSE LET critical == Rung(alert, 90, 95, 50)
             high == Rung(alert, 80, 85, 20)
             medium == Rung(alert, 70, 75, 10)
         IN  IF critical = "TypeError" THEN "TypeError"
             ELSE IF critical = "True" THEN "CRITICAL"
             ELSE IF high = "TypeError" THEN "TypeError"
             ELSE IF high = "True" THEN "HIGH"
             ELSE IF medium = "TypeError" THEN "TypeError"
             ELSE IF medium = "True" THEN "MEDIUM"
             ELSE "LOW"

\* _classify_severity: the answer of the inference if it names a severity,
\* else the fallback, whose exception leaves the except block
ClassifySeverity(alert, outcome) ==
    /\ ctask.pc = "idle"
    /\ alert_data' = alert
    /\ LET parsed == IF outcome = "raises" THEN "Exception"
                     ELSE SeverityOfText(StripUpper(outcome))
           rule == FallbackSeverityClassification(alert)
       IN  ctask' =
             IF parsed \in Severities
             THEN [pc |-> "returned", severity |-> parsed, fallback |-> FALSE]
             ELSE IF rule \in Severities
             THEN [pc |-> "returned", severity |-> rule, fallback |-> TRUE]
             ELSE [pc |-> "raised", severity |-> "none", fallback |-> TRUE]
    /\ UNCHANGED <<orchestrator_vars, resolution_vars>>

\* the caller has taken the result; the next alert may be classified
NextAlert ==
    /\ ctask.pc # "idle"
    /\ ctask' = IdleClassifier
    /\ alert_data' = NoAlert
    /\ UNCHANGED <<orchestrator_vars, resolution_vars>>

ClassifierNext ==
    \/ \E alert \in Alerts, outcome \in InferenceOutcomes :
         ClassifySeverity(alert, outcome)
    \/ NextAlert

ClassifierSpec == Init /\ [][ClassifierNext]_vars

\* ------------------------------------------------------------ properties
Known(i) == active_incidents[i] # 0

\* this step is the entry of a handle_agent_response call for incident i
HandlerEntry(i) ==
    /\ last'.op \in {"handler_return", "handler_suspend"}
    /\ last'.i = i
    /\ hnd[i][last'.k].pc = "idle"

\* this step is a step of the watchdog of incident i
WatchdogStep(i) ==
    /\ last'.op \in {"watchdog_exit", "watchdog_escalate", "watchdog_poll",
                     "watchdog_return"}
    /\ last'.i = i

\* the edges of the incident state graph
ValidTransition(s, t) ==
    \/ s = t
    \/ <<s, t>> \in {<<"DETECTED", "ANALYZING">>, <<"ANALYZING", "RESOLVING">>,
                     <<"ANALYZING", "ESCALATED">>, <<"RESOLVING", "RESOLVED">>,
                     <<"RESOLVING", "ESCALATED">>}

\* C1: the status an incident has in active_incidents only moves along the
\* edges DETECTED -> ANALYZING -> {RESOLVING -> RESOLVED | ESCALATED},
\* ANALYZING -> ESCALATED, RESOLVING -> ESCALATED, in every step.
C1_StatusPath ==
    [][\A i \in Incidents :
         Known(i) => ValidTransition(Cur(i).status, Cur(i)'.status)]_vars

\* C2: a response handled for an incident whose status is RESOLVED or
\* ESCALATED changes neither its status, nor its resolution_actions, nor its
\* actual_resolution_time, and sends no event.
C2_TerminalDiscards ==
    [][\A i \in Incidents :
         (Known(i) /\ HandlerEntry(i) /\ Cur(i).status \in Terminal)
         => /\ Cur(i)'.status = Cur(i).status
            /\ Cur(i)'.resolution_actions = Cur(i).resolution_actions
            /\ Cur(i)'.actual_resolution_time = Cur(i).actual_resolution_time
            /\ hnd'[i][last'.k].pc = "idle"
            /\ last'.ev = NoEvent]_vars

\* C3: handling a diagnosis response of confidence >= 0.8 for an ANALYZING
\* incident with resolution assigned makes the status RESOLVING and sends
\* one resolution_request that carries the diagnosis.
C3_HighConfidenceResolving ==
    [][\A i \in Incidents :
         (/\ Known(i) /\ HandlerEntry(i)
          /\ last'.resp.agent_type = "diagnostic"
          /\ GetConfidence(last'.resp) >= ConfidenceThreshold
          /\ last'.resp.diagnosis.confidence >= ConfidenceThreshold
          /\ Cur(i).status = "ANALYZING"
          /\ Contains(Cur(i).assigned_agents, "resolution"))
         => /\ Cur(i)'.status = "RESOLVING"
            /\ hnd'[i][last'.k].pc = "dispatch_to_resolution_agent"
            /\ hnd'[i][last'.k].ev.event_type = "resolution_request"
            /\ hnd'[i][last'.k].ev.diagnosis = last'.resp.diagnosis]_vars

\* C4: handling a diagnosis response whose diagnosis has confidence c < 0.8
\* for an ANALYZING incident escalates it with the reason
\* "Low diagnostic confidence: c" and sends no resolution_request.
C4_LowConfidenceReason ==
    [][\A i \in Incidents :
         (/\ Known(i) /\ HandlerEntry(i)
          /\ last'.resp.agent_type = "diagnostic"
          /\ last'.resp.diagnosis.confidence < ConfidenceThreshold
          /\ Cur(i).status = "ANALYZING")
         => /\ Cur(i)'.status = "ESCALATED"
            /\ last'.esc = LowConfidence(last'.resp.diagnosis.confidence)
            /\ hnd'[i][last'.k].pc # "dispatch_to_resolution_agent"]_vars

\* C5: every incident registered by process_alert eventually has the status
\* RESOLVED or ESCALATED, when the watchdog and the pending sends are
\* scheduled fairly and time goes on.
C5_EventuallyTerminal ==
    \A i \in Incidents :
        Known(i) ~> (Known(i) /\ Cur(i).status \in Terminal)

\* C6: for a CRITICAL incident within the response timeout, handling the
\* diagnostic agent's result of confidence 0.9 for "high cpu usage" starts
\* the resolution without escalating, and handling the successful
\* resolution result makes the incident RESOLVED.
C6_ScenarioResolved ==
    [][\A i \in Incidents :
         (/\ Known(i) /\ HandlerEntry(i)
          /\ Cur(i).severity = "CRITICAL"
          /\ wd[i].pc = "running" /\ ~TimedOut(wd[i].start_time))
         => /\ (last'.resp = DiagnosticResult("high cpu usage", 90)
                /\ Cur(i).status = "ANALYZING")
               => /\ Cur(i)'.status # "ESCALATED"
                  /\ hnd'[i][last'.k].pc = "dispatch_to_resolution_agent"
            /\ (last'.resp.agent_type = "resolution" /\ last'.resp.success
                /\ Cur(i).status \notin Terminal)
               => Cur(i)'.status = "RESOLVED"]_vars

\* C7: a pass of the watchdog that finds the timeout exceeded and the
\* incident neither RESOLVED nor ESCALATED escalates it with the reason
\* "Response timeout exceeded"; the watchdog escalates only then, and never
\* runs again afterwards (so at most once); on an incident that is RESOLVED
\* or ESCALATED the watchdog ends without escalation, write or event.
C7_WatchdogTimeout ==
    [][\A i \in Incidents :
         /\ (/\ WatchdogStep(i) /\ wd[i].pc = "running"
             /\ Cur(i).status \notin Terminal
             /\ TimedOut(wd[i].start_time))
            => /\ Cur(i)'.status = "ESCALATED"
               /\ last'.esc = TimeoutExceeded
               /\ wd'[i].pc # "running"
         /\ (last'.i = i /\ last'.esc = TimeoutExceeded)
            => /\ wd[i].pc = "running"
               /\ TimedOut(wd[i].start_time)
               /\ Cur(i).status \notin Terminal
         /\ wd[i].pc \notin {"none", "running"} => wd'[i].pc # "running"
         /\ (/\ WatchdogStep(i) /\ wd[i].pc = "running"
             /\ Cur(i).status \in Terminal)
            => /\ last'.esc = NoReason /\ ~last'.wrote /\ last'.ev = NoEvent
               /\ cosmos' = cosmos /\ heap' = heap
               /\ wd'[i].pc = "done"]_vars

\* C7, its case: the watchdog has just escalated a timed-out incident
C7_Witness ==
    /\ last.op = "watchdog_escalate"
    /\ last.esc = TimeoutExceeded
    /\ Cur(last.i).status = "ESCALATED"
    /\ wd[last.i].pc \in {"notify_escalation", "done", "crashed"}

\* C8: a step of the watchdog leaves the status of the incident held in
\* active_incidents as it is or makes it ESCALATED.
C8_WatchdogOnlyEscalates ==
    [][\A i \in Incidents :
         (Known(i) /\ WatchdogStep(i))
         => \/ Cur(i)'.status = Cur(i).status
            \/ Cur(i)'.status = "ESCALATED"]_vars

\* a task of incident i leaves the send_batch of _notify_escalation
NoticeEnds(i) ==
    \/ pa[i].pc = "notify_escalation" /\ pa'[i].pc # "notify_escalation"
    \/ wd[i].pc = "notify_escalation" /\ wd'[i].pc # "notify_escalation"
    \/ \E k \in HandlerIds :
         /\ hnd[i][k].pc = "notify_escalation"
         /\ hnd'[i][k].pc # "notify_escalation"

\* a task of incident i enters the send_batch of _notify_escalation
NoticeBegins(i) ==
    \/ pa[i].pc # "notify_escalation" /\ pa'[i].pc = "notify_escalation"
       /\ pa'[i].ev.reason = last'.esc
    \/ wd[i].pc # "notify_escalation" /\ wd'[i].pc = "notify_escalation"
       /\ wd'[i].ev.reason = last'.esc
    \/ \E k \in HandlerIds :
         /\ hnd[i][k].pc # "notify_escalation"
         /\ hnd'[i][k].pc = "notify_escalation"
         /\ hnd'[i][k].ev.reason = last'.esc

EscalatedItem(i) == cosmos[i] # NoItem /\ cosmos[i].status = "escalated"

\* C9: every call of _escalate_incident makes the status ESCALATED and sends
\* an incident_escalation event with its reason exactly when communication
\* is assigned; unless the write itself fails, the ESCALATED record is
\* persisted when the call ends, also when the send of the notice failed.
C9_EscalationPersists ==
    [][\A i \in Incidents :
         /\ (last'.i = i /\ last'.esc # NoReason)
            => /\ Cur(i)'.status = "ESCALATED"
               /\ Contains(Cur(i).assigned_agents, "communication")
                    <=> NoticeBegins(i)
               /\ (~NoticeBegins(i) /\ last'.exc # "persist")
                    => EscalatedItem(i)'
         /\ (NoticeEnds(i) /\ Cur(i).status = "ESCALATED"
             /\ last'.exc # "persist")
            => EscalatedItem(i)']_vars

\* C10: a step in which a send_batch raises leaves the incident ESCALATED
\* and does not end process_alert with an exception.
C10_DispatchFailureEscalates ==
    [][\A i \in Incidents :
         (last'.i = i /\ last'.exc \in {"dispatch", "notify"})
         => /\ Cur(i)'.status = "ESCALATED"
            /\ pa'[i].pc # "raised"]_vars

\* an approval_response with decision APPROVE was handled for p's incident
Approved(p) == <<p.incident_id, "APPROVE">> \in approval_responses

\* C11: while a plan has requires_approval = true and no approval_response
\* APPROVE has been handled for its incident, every action of the plan is
\* PENDING, no capability call has been made for it and the executor is not
\* running.
C11_ApprovalGate ==
    (plan # NoPlan /\ plan.requires_approval /\ ~Approved(plan))
    => /\ \A n \in 1..Len(plan.actions) : plan.actions[n].status = "PENDING"
       /\ capability_calls = << >>
       /\ rtask.results = << >>
       /\ rtask.pc \in {"idle", "request_approval", "send_failure_result"}

\* C11, its case: a high-risk plan whose approval request was sent, not
\* approved, nothing executed
C11_Witness ==
    /\ plan # NoPlan /\ plan.requires_approval /\ plan.risk_level = "high"
    /\ ~Approved(plan)
    /\ rtask.pc = "idle" /\ rtask.outcome = "returned"
    /\ outbox = <<ApprovalRequest(plan)>>
    /\ \A n \in 1..Len(plan.actions) : plan.actions[n].status = "PENDING"

\* C12: handling a resolution response with success = true for an incident
\* whose resolution is under way (RESOLVING in the claim; the code leaves
\* such an incident ANALYZING) appends actions_taken to resolution_actions,
\* sets actual_resolution_time to the time elapsed since created_at, makes
\* the status RESOLVED and sends incident_resolved; and unless the write
\* itself fails the RESOLVED record is persisted when the handling ends.
C12_ResolutionSuccess ==
    [][\A i \in Incidents :
         /\ (/\ Known(i) /\ HandlerEntry(i)
             /\ last'.resp.agent_type = "resolution" /\ last'.resp.success
             /\ Cur(i).status \in {"ANALYZING", "RESOLVING"}
             /\ Contains(Cur(i).assigned_agents, "resolution"))
            => /\ Cur(i)'.resolution_actions =
                    Cur(i).resolution_actions \o last'.resp.actions_taken
               /\ Cur(i)'.actual_resolution_time = now - Cur(i).created_at
               /\ Cur(i)'.status = "RESOLVED"
               /\ hnd'[i][last'.k].pc = "notify_resolved"
               /\ hnd'[i][last'.k].ev.event_type = "incident_resolved"
         /\ \A k \in HandlerIds :
              (/\ hnd[i][k].pc = "notify_resolved"
               /\ hnd'[i][k].pc = "idle"
               /\ last'.exc # "persist")
              => /\ cosmos'[i] # NoItem
                 /\ cosmos'[i].status = "resolved"
                 /\ last'.ev.event_type = "incident_resolved"]_vars

HasStatus(i, status) == Known(i) /\ Cur(i).status = status

\* the step just taken handled a failed resolution for incident i, which
\* was not RESOLVED or ESCALATED then
ResolutionFailureHandled(i) ==
    /\ last.op \in {"handler_return", "handler_suspend"}
    /\ last.i = i
    /\ last.resp.agent_type = "resolution" /\ ~last.resp.success
    /\ last.before \in Statuses \ Terminal

\* C13: handling a resolution response with success = false for an incident
\* that is not RESOLVED or ESCALATED escalates it with the reason
\* "Automatic resolution failed", and the incident is never RESOLVED
\* afterwards.
C13_ResolutionFailure ==
    \A i \in Incidents :
        [](ResolutionFailureHandled(i)
           => /\ HasStatus(i, "ESCALATED")
              /\ last.esc = ResolutionFailed
              /\ [](~HasStatus(i, "RESOLVED")))

\* C14: an ingestion in which nothing fails persists the new incident as
\* DETECTED, then makes it ANALYZING and sends one incident_analysis_request
\* while no watchdog exists yet; the watchdog starts in the step in which
\* that send completes, once, and process_alert then returns the id under
\* which the incident is registered; no second request or watchdog follows.
C14_AlertIngestion ==
    [][\A i \in Incidents :
         /\ (last'.op = "process_alert" /\ last'.i = i)
            => /\ ~Known(i)
               /\ cosmos'[i] # NoItem
               /\ cosmos'[i].status = "detected"
               /\ cosmos'[i].assigned_agents = << >>
               /\ Cur(i)'.status = "ANALYZING"
               /\ pa'[i].pc = "dispatch_to_diagnostic_agent"
               /\ pa'[i].ev.event_type = "incident_analysis_request"
               /\ pa'[i].ev.incident_id = i
               /\ wd'[i].pc = "none"
         /\ (pa[i].pc = "dispatch_to_diagnostic_agent"
             /\ pa'[i].pc = "done" /\ last'.exc = "none")
            => /\ last'.ev = pa[i].ev
               /\ wd[i].pc = "none"
               /\ wd'[i] = [pc |-> "running", start_time |-> now,
                            ev |-> NoEvent]
               /\ pa'[i].ret = i /\ Cur(i)'.id = i
         /\ (last'.i = i /\ last'.ev.event_type = "incident_analysis_request")
            => pa[i].pc = "dispatch_to_diagnostic_agent" /\ pa'[i].pc = "done"
         /\ (wd[i].pc = "none" /\ wd'[i].pc # "none")
            => last'.ev.event_type = "incident_analysis_request"
         /\ wd[i].pc # "none" => (wd'[i].pc # "none" /\ pa'[i] = pa[i])]_vars

\* C14, its case: process_alert has returned the id after sending the
\* analysis request and starting the watchdog
C14_Witness ==
    /\ last.op = "process_alert_return"
    /\ last.ev.event_type = "incident_analysis_request"
    /\ pa[last.i].ret = last.i
    /\ wd[last.i].pc = "running"
    /\ Cur(last.i).status = "ANALYZING"
    /\ cosmos[last.i].status = "detected"

AsSet(seq) == {seq[n] : n \in 1..Len(seq)}

\* C15: right after the assignment made at ingestion, assigned_agents holds,
\* without repetition, diagnostic, resolution and communication for HIGH and
\* CRITICAL, diagnostic and communication for MEDIUM, diagnostic for LOW.
C15_AssignedAgents ==
    last.op = "process_alert"
    => LET o == Cur(last.i)
       IN  /\ Len(o.assigned_agents) = Cardinality(AsSet(o.assigned_agents))
           /\ o.severity \in {"HIGH", "CRITICAL"}
                => AsSet(o.assigned_agents)
                     = {"diagnostic", "resolution", "communication"}
           /\ o.severity = "MEDIUM"
                => AsSet(o.assigned_agents) = {"diagnostic", "communication"}
           /\ o.severity = "LOW"
                => AsSet(o.assigned_agents) = {"diagnostic"}

\* C15, its case: a MEDIUM alert has just been ingested
C15_Witness ==
    /\ last.op = "process_alert"
    /\ Cur(last.i).severity = "MEDIUM"
    /\ Cur(last.i).assigned_agents = <<"diagnostic", "communication">>

\* an orchestrator operation is in progress on incident i
InProgress(i) ==
    \/ pa[i].pc \notin {"idle", "done", "raised"}
    \/ wd[i].pc = "notify_escalation"
    \/ \E k \in HandlerIds : hnd[i][k].pc # "idle"

\* C16: when process_alert has returned and no operation is in progress on
\* an incident, its persisted record has the status, assigned_agents,
\* updated_at and resolution_actions of the incident in active_incidents.
C16_PersistedAfterMutation ==
    \A i \in Incidents :
        (Known(i) /\ pa[i].pc = "done" /\ ~InProgress(i))
        => /\ cosmos[i] # NoItem
           /\ LET r == FromItem(cosmos[i])
              IN  /\ r.status = Cur(i).status
                  /\ r.assigned_agents = Cur(i).assigned_agents
                  /\ r.updated_at = Cur(i).updated_at
                  /\ r.resolution_actions = Cur(i).resolution_actions

\* C17: every call of _escalate_incident has a non-empty reason and, the
\* Incident having no field for it, sends it in an incident_escalation
\* event, whatever the severity and the assigned agents.
C17_EscalationReason ==
    [][\A i \in Incidents :
         (last'.i = i /\ last'.esc # NoReason)
         => /\ last'.esc.text # ""
            /\ Cur(i)'.status = "ESCALATED"
            /\ NoticeBegins(i)]_vars

\* the clock, which stops at MaxTime, can still pass the deadline of the
\* watchdog of incident i
DeadlineInReach(i) == wd[i].start_time + ResponseTimeout < MaxTime

\* C18: a running watchdog whose deadline the clock can pass eventually
\* ends; a watchdog ends at the first pass that finds its incident RESOLVED
\* or ESCALATED, and before that only by the escalation for the exceeded
\* timeout.
C18_WatchdogTerminates ==
    /\ \A i \in Incidents :
         (wd[i].pc = "running" /\ DeadlineInReach(i))
         ~> (wd[i].pc \in {"done", "crashed"})
    /\ [][\A i \in Incidents :
            /\ (/\ WatchdogStep(i) /\ wd[i].pc = "running"
                /\ Cur(i).status \in Terminal)
               => wd'[i].pc = "done" /\ last'.op = "watchdog_exit"
            /\ (/\ wd[i].pc = "running" /\ wd'[i].pc # "running"
                /\ Cur(i).status \notin Terminal)
               => /\ TimedOut(wd[i].start_time)
                  /\ last'.esc = TimeoutExceeded
                  /\ Cur(i)'.status = "ESCALATED"]_vars

\* C18, its case: the watchdog has ended on finding the incident RESOLVED
C18_Witness ==
    /\ last.op = "watchdog_exit"
    /\ wd[last.i].pc = "done"
    /\ Cur(last.i).status = "RESOLVED"

\* C19: handling a response whose incident_id is not in active_incidents
\* returns without exception, escalation, write or event and leaves the
\* incidents, the persisted records and every task as they are.
C19_UnknownIgnored ==
    [][\A id \in ResponseIds :
         (/\ last'.op \in {"handler_return", "handler_suspend"}
          /\ last'.i = id
          /\ ~InActiveIncidents(id))
         => /\ last'.op = "handler_return"
            /\ last'.exc = "none" /\ last'.esc = NoReason
            /\ last'.ev = NoEvent /\ ~last'.wrote
            /\ UNCHANGED <<now, active_incidents, heap, cosmos, pa, wd,
                           hnd>>]_vars

\* C19, its case: a response for an unknown id has just been ignored while
\* another incident is being analysed
C19_Witness ==
    /\ last.op = "handler_return" /\ last.i = UnknownId
    /\ \E i \in Incidents : Known(i) /\ Cur(i).status = "ANALYZING"
                            /\ wd[i].pc = "running"

ScaleTypes == {"SCALE_OUT", "SCALE_UP"}

\* C20: no capability call of a ScaleOut or ScaleUp action has a target above
\* the safety limit; a ScaleOut or ScaleUp action whose target is above the
\* limit ends FAILED with the safety-limit result (ROLLED_BACK after its
\* rollback), and one whose target is at most the limit is executed.
C20_SafetyLimit ==
    /\ \A n \in 1..Len(capability_calls) :
         capability_calls[n].type \in ScaleTypes
         => capability_calls[n].target_instances <= MaxScaleInstances
    /\ \A n \in 1..Len(plan.actions) :
         LET a == plan.actions[n]
         IN  (/\ a.type \in ScaleTypes
              /\ a.parameters.target_instances # Absent
              /\ a.status # "PENDING")
             => IF a.parameters.target_instances > MaxScaleInstances
                THEN /\ a.status \in {"FAILED", "ROLLED_BACK"}
                     /\ a.result = SafetyLimitResult(a)
                ELSE a.status \in {"EXECUTING", "COMPLETED"}

\* what the handler of action a reports, from its parameters alone
ReportsSuccess(a) ==
    /\ a.parameters.is_dict
    /\ a.type = "SCALE_OUT"
         => TargetInstances(a.parameters) <= MaxScaleInstances

\* _execute_plan has finished with action n
ActionOver(n) ==
    n < rtask.n \/ rtask.pc \in {"send_result", "send_failure_result", "idle"}

\* C21: an action that failed ends ROLLED_BACK exactly when rollback is
\* enabled, it has a rollback action and the handler of that action reports
\* success, and ends FAILED otherwise; a successful action ends COMPLETED;
\* the rollback capability is called only for a FAILED action with rollback
\* enabled and a rollback action, and there are no other capability calls
\* than those of the actions themselves and of these rollbacks.
C21_Rollback ==
    /\ \A n \in 1..Len(plan.actions) :
         LET a == plan.actions[n]
             r == a.rollback_action
         IN  /\ a.status = "ROLLED_BACK"
                  => /\ ~a.result.success
                     /\ rollback_enabled /\ r # NoAction /\ ReportsSuccess(r)
             /\ (ActionOver(n) /\ ~ReportsSuccess(a))
                  => a.status =
                       IF rollback_enabled /\ r # NoAction /\ ReportsSuccess(r)
                       THEN "ROLLED_BACK" ELSE "FAILED"
             /\ (ActionOver(n) /\ ReportsSuccess(a)) => a.status = "COMPLETED"
    /\ rtask.pc = "rollback_capability"
         => LET a == plan.actions[rtask.n]
            IN  /\ a.status = "FAILED" /\ ~a.result.success
                /\ rollback_enabled /\ a.rollback_action # NoAction
                /\ capability_calls[Len(capability_calls)]
                     = CapabilityCall(a.rollback_action)
    /\ Len(capability_calls)
         = Cardinality({n \in 1..Len(plan.actions) :
                          plan.actions[n].status \in {"EXECUTING", "COMPLETED"}})
           + Cardinality({n \in 1..Len(plan.actions) :
                            \/ plan.actions[n].status = "ROLLED_BACK"
                            \/ n = rtask.n /\ rtask.pc = "rollback_capability"})

\* C21, its case: of two failed actions with a rollback action, the one whose
\* rollback succeeded is ROLLED_BACK and the one whose rollback raised is
\* FAILED
C21_Witness ==
    /\ rtask.pc = "send_result" /\ rollback_enabled
    /\ Len(plan.actions) = 2
    /\ plan.actions[1].status = "ROLLED_BACK"
    /\ plan.actions[2].status = "FAILED"
    /\ plan.actions[2].rollback_action # NoAction
    /\ HandlerRaises(plan.actions[2].rollback_action)
    /\ Len(capability_calls) = 1

\* the number of actions _execute_plan has a result for
ResultsDue ==
    IF rtask.pc \in {"execute", "capability"} THEN rtask.n - 1
    ELSE IF rtask.pc = "rollback_capability" THEN rtask.n
    ELSE Len(plan.actions)

\* C22: the results of _execute_plan are one per action it has gone through,
\* in plan order, each with the success its handler reports, whatever failed
\* or raised before; once the pass is over there is one per action of the
\* plan, and the resolution result sent after it carries them all with
\* success true exactly when every one of them is successful.
C22_OneResultPerAction ==
    /\ Len(rtask.results) = ResultsDue
    /\ \A m \in 1..Len(rtask.results) :
         /\ rtask.results[m].action_id = m
         /\ rtask.results[m].type = plan.actions[m].type
         /\ rtask.results[m].success = ReportsSuccess(plan.actions[m])
    /\ rtask.outcome = "returned"
         => /\ Len(outbox) = 1
            /\ outbox[1].incident_id = plan.incident_id
            /\ outbox[1].actions_taken = rtask.results
            /\ Len(outbox[1].actions_taken) = Len(plan.actions)
            /\ outbox[1].success
                 <=> \A m \in 1..Len(plan.actions) : rtask.results[m].success

\* C22, its case: the handler of the first action raised, the second action
\* was executed all the same, and the result sent reports failure with both
C22_Witness ==
    /\ rtask.outcome = "returned"
    /\ Len(plan.actions) = 2
    /\ HandlerRaises(plan.actions[1])
    /\ plan.actions[2].status = "COMPLETED"
    /\ Len(outbox[1].actions_taken) = 2
    /\ ~outbox[1].success

\* execute_resolution has been called and its plan created
Planned == request # NoRequest /\ plan # NoPlan

\* C23: the plan created from a diagnosis whose confidence is below 0.7 has
\* risk_level high and requires approval, whatever the root cause and the
\* severity.
C23_LowConfidenceHighRisk ==
    (/\ Planned
     /\ request.diagnosis.confidence # Absent
     /\ request.diagnosis.confidence < ApprovalConfidence)
    => plan.risk_level = "high" /\ plan.requires_approval

\* C23, its case: a plan without risky actions for a non-critical incident,
\* made from a diagnosis of confidence 0.5
C23_Witness ==
    /\ Planned
    /\ request.diagnosis.confidence = 50
    /\ request.diagnosis.root_cause = "database timeout"
    /\ request.incident_data.severity = "high"
    /\ ~HasRiskyAction(plan.actions)
    /\ plan.risk_level = "high" /\ plan.requires_approval

\* the severity of incident_data is CRITICAL, as a resolution_request made by
\* hand writes it or as the orchestrator's json.dumps(..., default=str)
\* writes it
IsCritical(severity) == severity \in {"critical", "IncidentSeverity.CRITICAL"}

\* C24: with confidence at least 0.7, a plan with a RollbackDeployment or
\* RestartService action has risk medium and requires approval exactly when
\* the incident is CRITICAL, also in the form in which the orchestrator
\* sends the severity; any other plan has risk low and requires no approval.
C24_MediumRiskApproval ==
    (Planned /\ request.diagnosis.confidence >= ApprovalConfidence)
    => IF HasRiskyAction(plan.actions)
       THEN /\ plan.risk_level = "medium"
            /\ plan.requires_approval
                 <=> IsCritical(request.incident_data.severity)
       ELSE plan.risk_level = "low" /\ ~plan.requires_approval

\* root causes whose text contains "cpu"
CpuRootCauses ==
    {"high cpu usage", "High_CPU saturation", "Memory and CPU pressure"}

HasAction(actions, type) == \E n \in 1..Len(actions) : actions[n].type = type

\* C25: the plan for a root cause of the cpu category has a ScaleOut action
\* with target_instances 5, has an UpdateConfig action exactly when
\* cpu_percentage is above 90, and with confidence 0.9 has risk low and
\* requires no approval.
C25_CpuPlan ==
    (Planned /\ request.diagnosis.root_cause \in CpuRootCauses)
    => /\ \E n \in 1..Len(plan.actions) :
            /\ plan.actions[n].type = "SCALE_OUT"
            /\ plan.actions[n].parameters.target_instances = 5
       /\ HasAction(plan.actions, "UPDATE_CONFIG")
            <=> request.incident_data.metrics.cpu_percentage > 90
       /\ request.diagnosis.confidence = 90
            => plan.risk_level = "low" /\ ~plan.requires_approval

\* C25, its case: 'high cpu usage' at exactly 90 percent with confidence 0.9
C25_Witness ==
    /\ Planned
    /\ request.diagnosis.root_cause = "high cpu usage"
    /\ request.diagnosis.confidence = 90
    /\ request.incident_data.metrics.cpu_percentage = 90
    /\ ~HasAction(plan.actions, "UPDATE_CONFIG")
    /\ Len(plan.actions) = 1
    /\ plan.risk_level = "low"

\* the metrics of the alert are numbers, or missing
NumericAlert(alert) ==
    /\ alert.metrics_type \in {"dict", "missing"}
    /\ \A name \in MetricNames : alert.metrics[name] # Text

\* C26: whenever the fallback classifies an alert whose metrics are numbers or
\* missing, it returns CRITICAL if cpu>90 or memory>95 or error_rate>50,
\* else HIGH if cpu>80 or memory>85 or error_rate>20, else MEDIUM if cpu>70
\* or memory>75 or error_rate>10, else LOW, a missing metric counting as 0:
\* the severity is this function of the metrics alone.
C26_FallbackLadder ==
    (ctask.pc # "idle" /\ ctask.fallback /\ NumericAlert(alert_data))
    => LET m == alert_data.metrics
           cpu == IF m.cpu_percentage = Absent THEN 0 ELSE m.cpu_percentage
           memory == IF m.memory_percentage = Absent THEN 0
                     ELSE m.memory_percentage
           errors == IF m.error_rate = Absent THEN 0 ELSE m.error_rate
       IN  /\ ctask.pc = "returned"
           /\ ctask.severity =
                IF cpu > 90 \/ memory > 95 \/ errors > 50 THEN "CRITICAL"
                ELSE IF cpu > 80 \/ memory > 85 \/ errors > 20 THEN "HIGH"
                ELSE IF cpu > 70 \/ memory > 75 \/ errors > 10 THEN "MEDIUM"
                ELSE "LOW"

\* C26, its case: cpu=90 with the other metrics missing is classified HIGH
\* by the fallback
C26_Witness ==
    /\ ctask.pc = "returned" /\ ctask.fallback
    /\ alert_data.metrics_type = "dict"
    /\ alert_data.metrics.cpu_percentage = 90
    /\ alert_data.metrics.memory_percentage = Absent
    /\ alert_data.metrics.error_rate = Absent
    /\ ctask.severity = "HIGH"

\* C27: every classification returns one of the four severities and never
\* raises; when the inference raised or its answer names no severity, the
\* severity is the one of the rule ladder.
C27_ClassificationTotal ==
    ctask.pc # "idle"
    => /\ ctask.pc = "returned"
       /\ ctask.severity \in Severities
       /\ ctask.fallback
            => ctask.severity = FallbackSeverityClassification(alert_data)

\* C28: the incident _get_incident_from_db returns equals, field for field,
\* the incident that was persisted, for every severity and status.
C28_RoundTrip ==
    \A i \in Incidents :
        active_incidents[i] = 2
        => /\ heap[i][2] = heap[i][1]
           /\ DOMAIN heap[i][2] =
                {"id", "title", "description", "severity", "status", "source",
                 "metrics", "created_at", "updated_at", "assigned_agents",
                 "resolution_actions", "estimated_resolution_time",
                 "actual_resolution_time"}
           /\ cosmos[i].severity = EnumValue(heap[i][1].severity)
           /\ cosmos[i].created_at = <<"iso", heap[i][1].created_at>>

\* C28, its case: an ESCALATED CRITICAL incident with agents, actions,
\* metrics and a resolution time has been persisted and reloaded
C28_Witness ==
    /\ last.op = "reload" /\ active_incidents[last.i] = 2
    /\ LET o == heap[last.i][2]
       IN  /\ o.severity = "CRITICAL" /\ o.status = "ESCALATED"
           /\ o.assigned_agents # << >> /\ o.resolution_actions # << >>
           /\ o.metrics # NoMetrics /\ o.actual_resolution_time = 1
           /\ o.updated_at = 1

\* C30: when the response handled is the envelope of the diagnostic agent,
\* with the confidence inside its diagnosis only, the confidence compared with
\* the threshold is that of the diagnosis: a diagnosis at or above the
\* threshold is not escalated as a low-confidence one.
C30_EnvelopeConfidence ==
    [][\A i \in Incidents :
         (/\ Known(i) /\ HandlerEntry(i)
          /\ last'.resp.agent_type = "diagnostic"
          /\ last'.resp.confidence = Absent
          /\ Cur(i).status = "ANALYZING")
         => /\ GetConfidence(last'.resp) = last'.resp.diagnosis.confidence
            /\ HighConfidence(last'.resp.diagnosis.confidence)
                 => last'.esc = NoReason]_vars

\* this step of a handler or of the watchdog of incident i is taken while
\* the other, or another handler, is suspended in a send
Interleaves(i) ==
    \/ HandlerEntry(i)
       /\ \/ wd[i].pc = "notify_escalation"
          \/ \E k \in HandlerIds : hnd[i][k].pc # "idle"
    \/ WatchdogStep(i) /\ \E k \in HandlerIds : hnd[i][k].pc # "idle"

\* C29: a step of a handler or of the watchdog taken while the other (or
\* another handler) is suspended leaves a terminal status of the incident
\* as it is.
C29_NoInterference ==
    [][\A i \in Incidents :
         (Known(i) /\ Interleaves(i) /\ Cur(i).status \in Terminal)
         => (Known(i)' /\ Cur(i)'.status = Cur(i).status)]_vars

AwaitsApproval ==
    /\ plan # NoPlan /\ plan.requires_approval
    /\ rtask.pc = "idle" /\ rtask.outcome = "returned"
    /\ outbox = <<ApprovalRequest(plan)>>

\* a resolution_result for incident id has been sent
ResultSent(id) ==
    \E n \in 1..Len(outbox) :
        /\ outbox[n].event_type = "resolution_result"
        /\ outbox[n].incident_id = id

\* C32: once an approval_response APPROVE is recorded for an incident whose
\* plan was waiting for approval, the resolution agent eventually executes
\* the plan and sends a resolution_result for the incident.
C32_ApprovedPlanExecuted ==
    \A id \in Incidents :
        [](( /\ AwaitsApproval /\ plan.incident_id = id
             /\ <<id, "APPROVE">> \notin approval_responses)
           => []((AwaitsApproval /\ plan.incident_id = id /\ Approved(plan))
                 => <>(ResultSent(id) /\ capability_calls # << >>)))

\* the plan of incident i waits for approval after process_alert has ended
\* for i
AwaitsDecision(i) ==
    /\ Known(i) /\ pa[i].pc \in {"done", "raised"}
    /\ AwaitsApproval /\ plan.incident_id = i

\* C33: once an approval_response DENY is recorded for an incident whose plan
\* was waiting for approval, the incident eventually has the status
\* ESCALATED.
C33_DeniedPlanEscalated ==
    \A i \in Incidents :
        []((AwaitsDecision(i) /\ <<i, "DENY">> \notin approval_responses)
           => []((AwaitsDecision(i) /\ <<i, "DENY">> \in approval_responses)
                 => <>HasStatus(i, "ESCALATED")))

\* the event types of the claim's vocabulary
EventVocabulary ==
    {"incident_analysis_request", "diagnostic_result", "resolution_request",
     "resolution_result", "incident_escalation", "approval_request",
     "approval_response", "status_update"}

\* C34: every event the orchestrator has just sent, the notices to
\* communication included, and every event the resolution agent has sent has
\* an event_type of the vocabulary.
C34_ClosedVocabulary ==
    /\ last.ev # NoEvent => last.ev.event_type \in EventVocabulary
    /\ \A n \in 1..Len(outbox) : outbox[n].event_type \in EventVocabulary

\* the types of a sequence of actions
TypesOf(actions) == [n \in 1..Len(actions) |-> actions[n].type]

\* the root causes of the model by the first category of the chain that
\* their lower-cased text matches
FirstCategory(root_cause) ==
    CASE root_cause \in {"high cpu usage", "High_CPU saturation",
                         "Memory and CPU pressure"} -> "cpu"
      [] root_cause = "Memory leak" -> "memory"
      [] root_cause = "database timeout" -> "database"
      [] root_cause = "slow response" -> "performance"
      [] root_cause \in {"error rate spike", "unhandled exception"} -> "error"
      [] OTHER -> "none"

\* the sequences of action types a plan of each category may have
CategoryPlans(category) ==
    CASE category = "cpu" -> {<<"SCALE_OUT">>, <<"SCALE_OUT", "UPDATE_CONFIG">>}
      [] category = "memory" ->
           {<<"RESTART_SERVICE">>, <<"RESTART_SERVICE", "SCALE_UP">>}
      [] category = "database" -> {<<"OPTIMIZE_DATABASE", "CLEAR_CACHE">>}
      [] category = "performance" -> {<<"CIRCUIT_BREAKER", "SCALE_OUT">>}
      [] category = "error" -> {<<"ROLLBACK_DEPLOYMENT">>, <<"RESTART_SERVICE">>}
      [] OTHER -> {<<"CLEAR_CACHE", "SCALE_OUT">>}

\* C35: the actions of a plan are those of the first category, in the order
\* cpu, memory, database, timeout/response, error/exception, that the root
\* cause matches whatever its case, and of that category only; when no
\* category matches the plan is ClearCache followed by ScaleOut to 2
\* instances.
C35_FirstCategory ==
    Planned
    => LET category == FirstCategory(request.diagnosis.root_cause)
       IN  /\ TypesOf(plan.actions) \in CategoryPlans(category)
           /\ category = "none"
                => /\ Len(plan.actions) = 2
                   /\ plan.actions[1].parameters.cache_type = "application_cache"
                   /\ plan.actions[2].parameters.target_instances = 2

\* C35, its case: a root cause that names memory and cpu got the cpu plan
C35_Witness ==
    /\ Planned
    /\ request.diagnosis.root_cause = "Memory and CPU pressure"
    /\ request.incident_data.metrics.memory_percentage = 90
    /\ plan.actions[1].type = "SCALE_OUT"
    /\ plan.actions[1].parameters.target_instances = 5
    /\ ~HasAction(plan.actions, "RESTART_SERVICE")

\* the changes of an action's status a step of _execute_plan may make; a
\* handler that fails before its capability call takes the action from
\* PENDING through EXECUTING to FAILED within the step
StatusStep(s, t) ==
    <<s, t>> \in {<<"PENDING", "EXECUTING">>, <<"EXECUTING", "COMPLETED">>,
                  <<"EXECUTING", "FAILED">>, <<"PENDING", "FAILED">>,
                  <<"FAILED", "ROLLED_BACK">>}

\* _execute_plan has returned
PlanExecuted == rtask.pc \in {"send_result", "send_failure_result", "idle"}

\* C36: the status of each action of an executed plan goes PENDING,
\* EXECUTING, then COMPLETED or FAILED, and from FAILED possibly to
\* ROLLED_BACK; when _execute_plan returns no action is PENDING or
\* EXECUTING; a COMPLETED or ROLLED_BACK action is never changed again.
C36_ActionStatus ==
    [][\A n \in 1..Len(plan.actions) :
         LET a == plan.actions[n]
             b == plan'.actions[n]
         IN  /\ a.status # b.status => StatusStep(a.status, b.status)
             /\ a.status \in {"COMPLETED", "ROLLED_BACK"} => b = a
             /\ PlanExecuted'
                  => b.status \in {"COMPLETED", "FAILED", "ROLLED_BACK"}]_vars

\* C36, its case: a plan has been executed whose first action was rolled
\* back and whose second action completed
C36_Witness ==
    /\ PlanExecuted /\ rtask.outcome = "returned"
    /\ Len(plan.actions) = 2
    /\ plan.actions[1].status = "ROLLED_BACK"
    /\ plan.actions[2].status = "COMPLETED"

\* C37: the updated_at of the incident held in active_incidents never
\* decreases, whatever step of ingestion, of a handler or of the watchdog is
\* taken.
C37_UpdatedAtMonotonic ==
    [][\A i \in Incidents :
         Known(i) => (Known(i)' /\ Cur(i)'.updated_at >= Cur(i).updated_at)]_vars

\* sequence s is a prefix of sequence t
IsPrefix(s, t) ==
    Len(s) <= Len(t) /\ \A n \in 1..Len(s) : s[n] = t[n]

C39_AssignmentStable ==
    [][\A i \in Incidents :
         (/\ Known(i)
          /\ Cur(i).assigned_agents = DetermineRequiredAgents(Cur(i).severity))
         => /\ Known(i)'
            /\ Cur(i)'.assigned_agents
                 = DetermineRequiredAgents(Cur(i)'.severity)]_vars

\* C40: once process_alert has ended for an incident, by its return or by an
\* exception, the incident does not stay in active_incidents DETECTED or
\* ANALYZING without a running watchdog.
C40_WatchdogAfterIngestion ==
    \A i \in Incidents :
        (/\ Known(i) /\ pa[i].pc \in {"done", "raised"}
         /\ Cur(i).status \in {"DETECTED", "ANALYZING"})
        => wd[i].pc = "running"
====
